---- MODULE Spec2Model ----
(***************************************************************************)
(* Fallback orchestration of the Hugging Face video backends.              *)
(*                                                                         *)
(* The repository holds several server variants:                           *)
(*   "robust"     src/unnamed/part_002  video models, then frames -> GIF   *)
(*   "complete"   src/unnamed/part_003  the same, plus /api/generate-frames*)
(*   "continuous" src/index.js          router models, then hosted Spaces  *)
(*   "frames"     src/unnamed/part_001  /api/generate-frames only          *)
(* One request is followed from its arrival to its single response.  Every *)
(* outbound HTTP call is split in two steps, the call being issued and its *)
(* response (or failure) being handled, as the handlers await each call.   *)
(* Console output (console.warn, console.error) is not part of the state.   *)
(*                                                                         *)
(* Specifications:                                                         *)
(*   Spec            the request handlers of all variants                  *)
(*   LiveSpec        /api/generate-video of robust and complete, fair      *)
(*   AbandonSpec     the same handler with a client that may leave         *)
(*   ContinuousSpec  the continuous server with several Spaces             *)
(*   AssembleSpec    assembleGifFromDataUrls alone                         *)
(*   ClassifySpec    one 2xx response handled alone                        *)
(*   ParamsSpec      size, duration and fps from req.body to the payload   *)
(*   WalkSpec        one extraction walk alone                             *)
(***************************************************************************)
EXTENDS Integers, Sequences, FiniteSets, TLC

VARIABLES
  cfg,              \* process configuration: variant, route, env
  req,              \* req.body
  pc,               \* position of the request handler
  models,           \* the list the chain iterates (VIDEO_MODELS / getRouterModelList())
  i,                \* 1-based index of the video model being tried
  sp,               \* 1-based index of the Space being tried (trySpaces)
  pl,               \* 1-based index of the payload shape being tried on that Space
  lastErr,          \* trySpaces: lastErr of the current Space
  framesRequested,  \* framesRequested / framesCount / frameCount
  fi,               \* loop index i of the frame loop
  frames,           \* const frames = []
  jimpImgs,         \* assembleGifFromDataUrls: number of frames decoded so far
  assembled,        \* number of calls of assembleGifFromDataUrls
  calls,            \* every outbound HTTP call issued, in order
  answers,          \* what came back from each router model called, in order
  answer,           \* what came back from the latest call (NoAnswer before)
  inflight,         \* number of outbound calls awaiting their response
  res,              \* the response sent to the client (NoRes until sent)
  abandoned,        \* the client has closed the connection
  args,             \* assembleGifFromDataUrls(dataUrls, delayMs, quality) called alone
  bitmaps,          \* its jimpImgs array
  width, height,    \* its canvas size
  encoder,          \* its GIFEncoder
  gif,              \* what it returned or threw
  apc,              \* its position
  input,            \* a 2xx response and the function that receives it, taken alone
  cpc,              \* position in that function's handling of the response
  ops,              \* what has been done to the body so far, in order
  parsed,           \* the value the walk is given
  outcome,          \* how the function ended
  fields,           \* req.body of a request whose parameters are followed alone
  size,             \* const size = String(req.body.size || ..) / imgSize
  duration,         \* const duration, in tenths of a second
  fps,              \* const fps
  parameters,       \* payload.parameters of the outbound call
  ppc,              \* position in the handling of the parameters
  walkIn,           \* a parsed value handed to one extraction walk, taken alone
  walkFn,           \* the walk: find of the video functions, find of callImageModel, findImgs
  walkOut,          \* what the walk collected (found)
  wpc               \* position of the walk

handlerVars == <<cfg, req, pc, models, i, sp, pl, lastErr, framesRequested, fi, frames,
                 jimpImgs, assembled, calls, answers, answer, inflight, res, abandoned>>
asmVars == <<args, bitmaps, width, height, encoder, gif, apc>>
clsVars == <<input, cpc, ops, parsed, outcome>>
parVars == <<fields, size, duration, fps, parameters, ppc>>
walkVars == <<walkIn, walkFn, walkOut, wpc>>
vars == <<handlerVars, asmVars, clsVars, parVars, walkVars>>

-----------------------------------------------------------------------------
(* Bounds of the model *)

MaxFramesField == 30   \* largest integer a client sends as req.body.frames
MaxEnvModels == 2      \* longest HF_VIDEO_MODELS list
MaxSpaces == 1         \* longest HF_VIDEO_SPACES list
MaxAsmFrames == 3      \* longest frame list handed to the assembler alone
MaxChainSpaces == 2    \* longest HF_VIDEO_SPACES list of the continuous server alone

(* Program constants *)

DefaultFrames == 8     \* req.body.frames || 8
MinFrames == 4         \* Math.max(.., 4)
MaxFramesVideo == 16   \* Math.min(.., 16) in /api/generate-video
MaxFramesFrames == 24  \* Math.min(.., 24) in /api/generate-frames
VideoB64Min == 200     \* /^[A-Za-z0-9+/=]{200,}$/
ImageB64Min == 100     \* /^[A-Za-z0-9+/=]{100,}$/
NumPayloads == 5       \* triedPayloads.length

VIDEO_MODELS ==
  << "ali-vilab/text-to-video-ms-1.7b", "damo-vilab/text-to-video",
     "stabilityai/stable-video-diffusion-img2vid-xt", "pesser/stable-video-diffusion" >>

DEFAULT_ROUTER_MODELS ==
  << "ali-vilab/text-to-video-ms-1.7b", "damo-vilab/text-to-video",
     "stabilityai/stable-video-diffusion-img2vid-xt", "runwayml/stable-video-v1" >>

IMAGE_MODEL == "black-forest-labs/FLUX.1-schnell"

-----------------------------------------------------------------------------
(* JavaScript numbers as far as the handlers use them: an integer or NaN *)

Num(n) == [nan |-> FALSE, n |-> n]
NaN == [nan |-> TRUE, n |-> 0]

MathMax(a, b) == IF a.nan \/ b.nan THEN NaN ELSE IF a.n >= b.n THEN a ELSE b
MathMin(a, b) == IF a.nan \/ b.nan THEN NaN ELSE IF a.n <= b.n THEN a ELSE b
\* i < x for an integer i: false when x is NaN
LessThan(n, x) == ~x.nan /\ n < x.n

(* req.body.frames: absent, an integer, or text that is no number *)
FramesFields ==
  {[k |-> "absent", n |-> 0], [k |-> "text", n |-> 0]}
    \cup {[k |-> "int", n |-> n] : n \in {-1, 0, 3, 4, 16, 17, 24, MaxFramesField}}

\* parseInt(req.body.frames || 8, 10)
parseIntFrames(f) ==
  IF f.k = "absent" \/ (f.k = "int" /\ f.n = 0) THEN Num(DefaultFrames)
  ELSE IF f.k = "int" THEN Num(f.n)
  ELSE NaN

\* the frame count without the Math.min
clampFrames_noUpper(f, hi) == MathMax(parseIntFrames(f), Num(MinFrames))

clampFrames(f, hi) == MathMin(MathMax(parseIntFrames(f), Num(MinFrames)), Num(hi))

-----------------------------------------------------------------------------
(* JSON values as the extraction walks them.  A string is kept by the       *)
(* features the walk tests: its prefix, whether /\.mp4(\?|$)/ matches, and   *)
(* whether it is one run of base64-alphabet characters, with its length.    *)

JNull == [t |-> "null"]
JNum(n) == [t |-> "num", n |-> n]
JStr(pre, mp4, b64, len) == [t |-> "str", pre |-> pre, mp4 |-> mp4, b64 |-> b64, len |-> len]
JArr(v) == [t |-> "arr", v |-> v]
JObj(k, v) == [t |-> "obj", k |-> k, v |-> v]

\* !o
Falsy(o) ==
  \/ o.t = "null"
  \/ o.t = "num" /\ o.n = 0
  \/ o.t = "str" /\ o.len = 0

\* a collected reference: the string, and what the walk put in front of it
Ref(prefix, s) == [prefix |-> prefix, s |-> s]

\* `data:${ct};base64,${bytes as base64}`
DataUrl(ct, bytes) == [prefix |-> "data:", ct |-> ct, s |-> bytes]

\* a walk that puts each find in front of the earlier ones
RECURSIVE Concat_reversed(_)
Concat_reversed(ss) == IF ss = <<>> THEN <<>> ELSE Concat_reversed(Tail(ss)) \o Head(ss)

RECURSIVE Concat(_)
Concat(ss) == IF ss = <<>> THEN <<>> ELSE Head(ss) \o Concat(Tail(ss))

\* the number a property key stands for when it is an array index ("2",
\* "10"), else -1
IndexOf(k) ==
  CASE k = "0" -> 0 [] k = "1" -> 1 [] k = "2" -> 2 [] k = "10" -> 10 [] OTHER -> -1

RECURSIVE byIndex(_, _)
byIndex(o, S) ==
  IF S = {} THEN <<>>
  ELSE LET m == CHOOSE n \in S : \A x \in S : IndexOf(o.k[n]) <= IndexOf(o.k[x])
       IN <<o.v[m]>> \o byIndex(o, S \ {m})

\* Object.values(o): the values under array-index keys in ascending order of
\* the index, then the others in the order the properties were created
ObjectValues(o) ==
  LET named == SelectSeq([n \in 1..Len(o.k) |-> n], LAMBDA n : IndexOf(o.k[n]) < 0)
  IN byIndex(o, {n \in 1..Len(o.k) : IndexOf(o.k[n]) >= 0})
       \o [j \in 1..Len(named) |-> o.v[named[j]]]

\* a test that asks for no minimum length
isBase64_noMinimum(o, min) == o.b64

\* /^[A-Za-z0-9+/=]{200,}$/.test(o), /^[A-Za-z0-9+/=]{100,}$/.test(o)
isBase64(o, min) == o.b64 /\ o.len >= min

\* a walk that looks at the value itself and never inside it
find_flat(o) ==
  IF Falsy(o) \/ o.t # "str" THEN <<>>
  ELSE IF o.pre = "data:video" \/ o.mp4 THEN <<Ref("", o)>>
  ELSE IF o.b64 /\ o.len >= VideoB64Min THEN <<Ref("data:video/mp4;base64,", o)>>
  ELSE <<>>

\* the walk over a parsed video response: found.push in visiting order
RECURSIVE find(_)
find(o) ==
  IF Falsy(o) THEN <<>>
  ELSE IF o.t = "str" THEN
    IF o.pre = "data:video" THEN <<Ref("", o)>>
    ELSE IF o.mp4 THEN <<Ref("", o)>>
    ELSE IF isBase64(o, VideoB64Min) THEN <<Ref("data:video/mp4;base64,", o)>>
    ELSE <<>>
  ELSE IF o.t = "arr" THEN Concat([n \in 1..Len(o.v) |-> find(o.v[n])])
  ELSE IF o.t = "obj" THEN
    Concat([n \in 1..Len(o.v) |-> find(ObjectValues(o)[n])])
  ELSE <<>>

\* the walk over a parsed image response: the first match, or <<>> (found = null)
RECURSIVE findImage(_, _)
findImage(o, found) ==
  IF found # <<>> THEN found
  ELSE IF Falsy(o) THEN found
  ELSE IF o.t = "str" THEN
    IF o.pre = "data:image" THEN <<Ref("", o)>>
    ELSE IF isBase64(o, ImageB64Min) THEN <<Ref("data:image/png;base64,", o)>>
    ELSE found
  ELSE IF o.t = "arr" THEN
    IF o.v = <<>> THEN found
    ELSE findImage([o EXCEPT !.v = Tail(o.v)], findImage(Head(o.v), found))
  ELSE IF o.t = "obj" THEN findImage(JArr(ObjectValues(o)), found)
  ELSE found

\* findImgs of callHFImage: the first match is returned at once, null (<<>>)
\* when there is none; firstImg is its loop over the values of an array or
\* an object
RECURSIVE findImgs(_)
RECURSIVE firstImg(_)
\* a loop that goes on after a match and returns the last one
RECURSIVE firstImg_last(_)
firstImg_last(vs) ==
  IF vs = <<>> THEN <<>>
  ELSE LET r == firstImg_last(Tail(vs)) IN IF r # <<>> THEN r ELSE findImgs(Head(vs))

firstImg(vs) ==
  IF vs = <<>> THEN <<>>
  ELSE LET r == findImgs(Head(vs)) IN IF r # <<>> THEN r ELSE firstImg(Tail(vs))

findImgs(obj) ==
  IF Falsy(obj) THEN <<>>
  ELSE IF obj.t = "str" THEN
    IF obj.pre = "data:image" THEN <<Ref("", obj)>>
    ELSE IF isBase64(obj, ImageB64Min) THEN <<Ref("data:image/png;base64,", obj)>>
    ELSE <<>>
  ELSE IF obj.t = "arr" THEN firstImg(obj.v)
  ELSE IF obj.t = "obj" THEN firstImg(ObjectValues(obj))
  ELSE <<>>

-----------------------------------------------------------------------------
(* What a backend can answer.  status = 0 stands for no response at all     *)
(* (timeout, connection failure); body.json says whether JSON.parse succeeds *)
(* on the body, body.val is the parsed value and body.text the raw text.    *)

Mp4Url == JStr("https", TRUE, FALSE, 17)
DataVideo == JStr("data:video", FALSE, FALSE, 300)
DataImage == JStr("data:image", FALSE, FALSE, 300)
LongB64 == JStr("", FALSE, TRUE, 250)
MidB64 == JStr("", FALSE, TRUE, 150)
Words == JStr("", FALSE, FALSE, 20)
Bytes == JStr("", FALSE, FALSE, 1000)

Parsed(val) == [json |-> TRUE, val |-> val, text |-> Bytes]
Raw(text) == [json |-> FALSE, val |-> JNull, text |-> text]

\* a content-type header, lower-cased: type "/" sub  (Ct("", "") when absent)
Ct(type, sub) == [type |-> type, sub |-> sub]
\* a test that takes image types for video types too
StartsWith_media(ct, type) ==
  ct.type = type \/ (type = "video" /\ ct.type = "image")

\* a test for the one content type video/mp4 (image/png)
StartsWith_exact(ct, type) ==
  ct.type = type /\ ct.sub \in {"mp4", "png", "plain"}

StartsWith(ct, type) == ct.type = type      \* ct.startsWith(type + "/")

Response(status, ct, body) == [status |-> status, ct |-> ct, body |-> body]

Failures ==
  {Response(s, Ct("application", "json"), Parsed(JObj(<<"error">>, <<Words>>))) : s \in {401, 403, 404, 500}}
    \cup {Response(0, Ct("", ""), Raw(Words))}

VideoResponses ==
  Failures \cup
  { Response(200, Ct("video", "mp4"), Raw(Bytes)),
    Response(200, Ct("application", "json"), Parsed(JObj(<<"url">>, <<Mp4Url>>))),
    Response(200, Ct("application", "json"),
             Parsed(JObj(<<"data">>, <<JArr(<<DataVideo, JObj(<<"b64">>, <<LongB64>>), DataVideo>>)>>))),
    Response(200, Ct("application", "json"), Parsed(JObj(<<"status", "eta">>, <<Words, JNum(20)>>))),
    Response(200, Ct("image", "png"), Raw(Bytes)),
    Response(200, Ct("text", "plain"), Raw(Mp4Url)) }

ImageResponses ==
  Failures \cup
  { Response(200, Ct("image", "png"), Raw(Bytes)),
    Response(200, Ct("application", "json"), Parsed(JArr(<<JObj(<<"image">>, <<MidB64>>), DataImage>>))),
    Response(200, Ct("application", "json"), Parsed(JObj(<<"status">>, <<Words>>))),
    Response(200, Ct("text", "plain"), Raw(Words)) }

\* axios rejects the promise: no response, or a status outside 2xx
IsError(r) == r.status = 0 \/ r.status >= 300
\* err.response is set
HasResponse(r) == r.status # 0

\* try { parsed = JSON.parse(text) } catch (e) { parsed = text }
JSONparse(body) == IF body.json THEN body.val ELSE body.text

-----------------------------------------------------------------------------
(* Configuration (process.env) and request bodies *)

EnvModelNames == <<"env/model-1", "env/model-2", "env/model-3", "env/model-4">>
SpaceNames == <<"owner/space-1", "owner/space-2", "owner/space-3">>

Config(variant, route, token, provider, envSet, envModels, spaces) ==
  [variant |-> variant, route |-> route, token |-> token, provider |-> provider,
   envSet |-> envSet, envModels |-> envModels, spaces |-> spaces]

Configs ==
  {Config(v, "video", t, p, FALSE, <<>>, <<>>) :
     v \in {"robust", "complete"}, t \in BOOLEAN, p \in {"huggingface", "replicate"}}
  \cup {Config("complete", "frames", t, p, FALSE, <<>>, <<>>) :
     t \in BOOLEAN, p \in {"huggingface", "replicate"}}
  \cup {Config("frames", "frames", t, "huggingface", FALSE, <<>>, <<>>) : t \in BOOLEAN}
  \cup {Config("continuous", "video", t, "huggingface", FALSE, <<>>, SubSeq(SpaceNames, 1, ns)) :
     t \in BOOLEAN, ns \in 0..MaxSpaces}
  \cup {Config("continuous", "video", t, "huggingface", TRUE, SubSeq(EnvModelNames, 1, nm),
               SubSeq(SpaceNames, 1, ns)) :
     t \in BOOLEAN, nm \in 0..MaxEnvModels, ns \in 0..MaxSpaces}

Prompts ==
  {[k |-> "absent", s |-> ""], [k |-> "text", s |-> ""], [k |-> "text", s |-> "   "],
   [k |-> "text", s |-> "a red ball bouncing"]}

\* a check that lets a prompt of blanks pass
MissingPrompt_noTrim(p) == p.k = "absent" \/ p.s = ""

\* !prompt || !String(prompt).trim()
MissingPrompt(p) == p.k = "absent" \/ p.s \in {"", "   "}

\* getRouterModelList(): the env list when HF_VIDEO_MODELS is set, else the defaults
getRouterModelList(c) == IF c.envSet THEN c.envModels ELSE DEFAULT_ROUTER_MODELS

\* the Spaces taken from the end of the list
getSpacesList_reversed(c) == [n \in 1..Len(c.spaces) |-> c.spaces[Len(c.spaces) + 1 - n]]

\* getSpacesList()
getSpacesList(c) == c.spaces

-----------------------------------------------------------------------------
(* Responses to the client, outbound calls *)

\* diag: what the body says about single backends, <<backend, status>> pairs
\* (status -1: the backend is named, its outcome is not)
Res(code, error, model, media, n, diag) ==
  [code |-> code, error |-> error, model |-> model, media |-> media, frames |-> n,
   diag |-> diag]
NoRes == Res(0, "", "", <<>>, 0, <<>>)
Diag(backend, status) == [backend |-> backend, status |-> status]

\* an outbound POST: frame = -1 when the prompt is sent as given, else the index
\* appended to it after sep; payload is the index of the Space payload shape
Call(kind, to, prompt, frame, sep, payload) ==
  [kind |-> kind, to |-> to, prompt |-> prompt, frame |-> frame, sep |-> sep,
   payload |-> payload]

\* message of the outer catch: the upstream body when err.response.data is set,
\* else err.message
CatchMessage(r) == IF HasResponse(r) THEN "upstream body" ELSE "transport error"

-----------------------------------------------------------------------------
(* One iteration of the chain, once the call has returned or failed *)

\* tryVideoModels without the branch for a video content type
tryVideoModelsStep_noVideoBranch(r) ==
  IF IsError(r) THEN
    IF HasResponse(r) /\ r.status \in {401, 403} THEN "throw" ELSE "continue"
  ELSE IF find(JSONparse(r.body)) # <<>> THEN "return"
  ELSE "continue"

\* tryVideoModels: "return" {model, videos}, "throw" the auth error, or "continue"
tryVideoModelsStep(r) ==
  IF IsError(r) THEN
    IF HasResponse(r) /\ r.status \in {401, 403} THEN "throw" ELSE "continue"
  ELSE IF StartsWith(r.ct, "video") THEN "return"
  ELSE IF find(JSONparse(r.body)) # <<>> THEN "return"
  ELSE "continue"

\* tryRouterVideos: every error continues
tryRouterVideosStep(r) ==
  IF IsError(r) THEN "continue"
  ELSE IF StartsWith(r.ct, "video") THEN "return"
  ELSE IF find(JSONparse(r.body)) # <<>> THEN "return"
  ELSE "continue"

\* a result that holds no video
videos_none(r) == <<>>

\* the videos of a returning iteration
videos(r) ==
  IF StartsWith(r.ct, "video") THEN <<DataUrl(r.ct, r.body.text)>>
  ELSE find(JSONparse(r.body))

\* o[k] of a parsed value: undefined (null) unless o is an object with field k
Field(o, k) ==
  IF o.t = "obj" /\ \E n \in 1..Len(o.k) : o.k[n] = k
  THEN o.v[CHOOSE n \in 1..Len(o.k) : o.k[n] = k /\ \A m \in 1..Len(o.k) : o.k[m] = k => m <= n]
  ELSE JNull

\* trySpaces: found after find(out) and, when that is empty, find(out.data || out.output)
spaceFound(out) ==
  LET first == find(out)
      inner == IF ~Falsy(Field(out, "data")) THEN Field(out, "data") ELSE Field(out, "output")
  IN IF first # <<>> THEN first
     ELSE IF ~Falsy(out) /\ ~Falsy(inner) THEN first \o find(inner)
     ELSE first

\* callImageModel handing back whatever a 2xx answer held
callImageModelStep_noCheck(r) ==
  IF IsError(r) THEN "throw" ELSE "return"

\* callImageModel / callHFImage: "return" a data URL or "throw"
callImageModelStep(r) ==
  IF IsError(r) THEN "throw"
  ELSE IF StartsWith(r.ct, "image") THEN "return"
  ELSE IF r.body.json /\ findImage(r.body.val, <<>>) # <<>> THEN "return"
  ELSE "throw"

\* the media a response holds for the caller of that kind: raw bytes of the
\* wanted type count as one, else the references the walk extracts
mediaCount(kind, r) ==
  IF IsError(r) THEN 0
  ELSE IF kind = "router" THEN
    IF StartsWith(r.ct, "video") THEN 1 ELSE Len(find(JSONparse(r.body)))
  ELSE IF kind = "space" THEN Len(find(JSONparse(r.body)))
  ELSE IF StartsWith(r.ct, "image") THEN 1
  ELSE IF r.body.json THEN Len(findImage(r.body.val, <<>>))
  ELSE 0

\* the record kept of a response: its status, its media, and what the
\* iteration did with it ("return", "throw" or "continue")
Answer(kind, r, step) ==
  [kind |-> kind, status |-> r.status, media |-> mediaCount(kind, r), step |-> step]
NoAnswer == [kind |-> "", status |-> 0, media |-> 0, step |-> ""]

\* the frame loop with i <= framesRequested
frameLoopRuns_inclusive(n, requested) == ~requested.nan /\ n <= requested.n

\* the frame loop's test i < framesRequested
frameLoopRuns(n, requested) == LessThan(n, requested)

\* the frame loop stepping by two
nextFrame_skip(n) == n + 2

\* the frame loop's i++
nextFrame(n) == n + 1

\* a chain that passes over the model after a failed one
nextModel_skip(n) == n + 2

\* a chain that tries the failed model once more
nextModel_again(n) == n

\* the next model after a failed one (continue)
nextModel(n) == n + 1

\* a call that is left to run while the loop goes on
awaitCall_detached(waiting, running) == running

\* const resp = await hfPostModel(..): the function stays at the call until
\* it has returned or thrown
awaitCall(waiting, running) == waiting

-----------------------------------------------------------------------------
(* State machine *)

-----------------------------------------------------------------------------
(* The handling of one 2xx response on its own, in each function that reads *)
(* one.  Content types are lower case, as servers send them.                *)

VideoCallees == {"tryVideoModels", "tryRouterVideos"}
ImageCallees == {"callImageModel", "callHFImage"}

ContentTypes ==
  {Ct("video", "mp4"), Ct("video", "webm"), Ct("image", "png"), Ct("application", "json"),
   Ct("text", "json"), Ct("text", "plain"), Ct("application", "octet-stream"), Ct("", "")}

Bodies ==
  {Raw(Bytes), Raw(Mp4Url), Raw(DataImage), Raw(Words), Raw(LongB64),
   Parsed(JObj(<<"url">>, <<Mp4Url>>)),
   Parsed(JObj(<<"data", "video">>,
               <<JArr(<<DataVideo, JObj(<<"b64">>, <<LongB64>>), DataVideo>>), Mp4Url>>)),
   Parsed(JObj(<<"out", "10", "2">>,
               <<Mp4Url, DataVideo, JArr(<<JStr("https", TRUE, FALSE, 24), Words>>)>>)),
   Parsed(DataImage),
   Parsed(JArr(<<JObj(<<"image">>, <<MidB64>>), DataImage>>)),
   Parsed(JObj(<<"status", "eta">>, <<Words, JNum(20)>>)),
   Parsed(JNull)}

Inputs == [fn : VideoCallees \cup ImageCallees \cup {"generate"},
           r : {Response(200, ct, b) : ct \in ContentTypes, b \in Bodies}]

\* contentType.includes('application/json') || contentType.includes('text/json')
isJsonType(ct) == <<ct.type, ct.sub>> \in {<<"application", "json">>, <<"text", "json">>}

\* how a function ends on a response: by returning refs, by going on to
\* the next backend, by throwing, or (POST /generate) by answering the client;
\* class names the branch taken
Outcome(kind, class, refs) == [kind |-> kind, class |-> class, refs |-> refs]
NoOutcome == Outcome("", "", <<>>)

ClsIdle ==
  /\ input = [fn |-> "", r |-> Response(0, Ct("", ""), Raw(Words))]
  /\ cpc = "idle"
  /\ ops = <<>>
  /\ parsed = JNull
  /\ outcome = NoOutcome

-----------------------------------------------------------------------------
(* assembleGifFromDataUrls on its own: the frames, Jimp and the GIFEncoder *)

DefaultDelayMs == 120
DefaultQuality == 10

\* a decoded image of one colour: img.bitmap.width, .height and .data
Bitmap(color, w, h) == [color |-> color, width |-> w, height |-> h]
\* bytes that are no image
NoImage == Bitmap("", 0, 0)
Images == {Bitmap("red", 2, 2), Bitmap("green", 3, 2), Bitmap("blue", 2, 4)}

\* one entry of dataUrls: a data: URL holding img, or an http URL whose
\* download fails or yields img
Frame(src, fetched, img) == [src |-> src, fetched |-> fetched, img |-> img]
Args(isArray, items, delayMs, quality) ==
  [isArray |-> isArray, items |-> items, delayMs |-> delayMs, quality |-> quality]
AssembleArgs ==
  {Args(a, <<>>, DefaultDelayMs, DefaultQuality) : a \in BOOLEAN}
  \cup {Args(TRUE, items, t[1], t[2]) :
          items \in UNION {[1..n -> {Frame("data", TRUE, im) : im \in Images \cup {NoImage}}
                                      \cup {Frame("http", TRUE, im) : im \in Images \cup {NoImage}}
                                      \cup {Frame("http", FALSE, NoImage)}] :
                             n \in 1..MaxAsmFrames},
          t \in {<<DefaultDelayMs, DefaultQuality>>, <<80, 5>>}}

\* !Array.isArray(dataUrls) || dataUrls.length === 0
noFramesGiven(a) == ~a.isArray \/ Len(a.items) = 0

\* Jimp.read accepting every buffer
decoded_always(d) == TRUE

\* axios.get(d) of an http URL succeeds; a data: URL is sliced in place
fetched(d) == d.src = "data" \/ d.fetched
\* Jimp.read(buffer) succeeds
decoded(d) == d.img # NoImage

\* resize that leaves the bitmap as it is
resize_none(img, w, h) == img

\* jimpImgs[i].resize(width, height)
resize(img, w, h) == [img EXCEPT !.width = w, !.height = h]

\* an encoder that plays the frames once
GIFEncoder_once(w, h, delayMs, quality) ==
  [width |-> w, height |-> h, repeat |-> -1, delay |-> delayMs, quality |-> quality,
   frames |-> <<>>, finished |-> FALSE]

\* new GIFEncoder(width, height); setRepeat(0); setDelay; setQuality; start()
GIFEncoder(w, h, delayMs, quality) ==
  [width |-> w, height |-> h, repeat |-> 0, delay |-> delayMs, quality |-> quality,
   frames |-> <<>>, finished |-> FALSE]

\* no encoder created yet
NoEncoder ==
  [width |-> 0, height |-> 0, repeat |-> 0, delay |-> 0, quality |-> 0,
   frames |-> <<>>, finished |-> FALSE]

Returned(enc) == [kind |-> "return", prefix |-> "data:image/gif;base64,", error |-> "",
                  gif |-> enc]
Threw(msg) == [kind |-> "throw", prefix |-> "", error |-> msg, gif |-> NoEncoder]
NoGif == [kind |-> "", prefix |-> "", error |-> "", gif |-> NoEncoder]

AsmIdle ==
  /\ args = Args(FALSE, <<>>, 0, 0)
  /\ bitmaps = <<>>
  /\ width = 0
  /\ height = 0
  /\ encoder = NoEncoder
  /\ gif = NoGif
  /\ apc = "idle"

-----------------------------------------------------------------------------
(* The parameters of one request followed alone, from req.body to the       *)
(* payload.parameters of the outbound calls.  A size string is kept as the  *)
(* list of its parts between the 'x' characters, each part being text that  *)
(* parseInt reads as an integer or as NaN.  Durations are kept in tenths of *)
(* a second, so that parseFloat keeps a fraction and parseInt drops it.     *)

MaxSideField == 4096      \* largest side a client names in req.body.size
MaxDurationField == 600   \* largest req.body.duration, in tenths of a second
MaxFpsField == 600        \* largest req.body.fps, in tenths

DefaultDuration == 30     \* req.body.duration || 3, in tenths
MinDuration == 5          \* Math.max(.., 0.5), in tenths
MaxDuration == 120        \* Math.min(.., 12), in tenths
DefaultFps == 12          \* req.body.fps || 12
MinFps == 6               \* Math.max(.., 6)
MaxFps == 30              \* Math.min(.., 30)

Px(n) == [k |-> "int", n |-> n]
NoPx == [k |-> "text", n |-> 0]
Str(parts) == [k |-> "str", parts |-> parts, n |-> 0]
NumVal(n) == [k |-> "num", parts |-> <<>>, n |-> n]
Absent == [k |-> "absent", parts |-> <<>>, n |-> 0]
Text == [k |-> "text", parts |-> <<>>, n |-> 0]

\* a value to which !v is true: undefined, '' or 0
FalsyField(f) == f.k \in {"absent", "empty"} \/ (f.k = "num" /\ f.n = 0)

\* const size = String(req.body.size || '256x256'), '512x512' in
\* /api/generate-frames; String(n) of a number is its digits, which hold no
\* 'x'.  The frames server has const imgSize = size || '512x512', without
\* String
readSize(variant, route, f) ==
  IF FalsyField(f) THEN
    IF route = "video" THEN Str(<<Px(256), Px(256)>>) ELSE Str(<<Px(512), Px(512)>>)
  ELSE IF variant = "frames" \/ f.k # "num" THEN f
  ELSE Str(<<Px(f.n)>>)

\* parseInt(s, 10) of one part of the size
parseIntPart(p) == IF p.k = "int" THEN Num(p.n) ELSE NaN

\* Math.min(Math.max(parseFloat(req.body.duration || 3), 0.5), 12), in tenths
clampDuration(f) ==
  LET parseFloat == IF FalsyField(f) THEN Num(DefaultDuration)
                    ELSE IF f.k = "num" THEN Num(f.n)
                    ELSE NaN
  IN MathMin(MathMax(parseFloat, Num(MinDuration)), Num(MaxDuration))

\* Math.min(Math.max(parseInt(req.body.fps || 12, 10), 6), 30): parseInt
\* drops the fraction of a number given in tenths
clampFps(f) ==
  LET parseInt == IF FalsyField(f) THEN Num(DefaultFps)
                  ELSE IF f.k = "num"
                    THEN Num(IF f.n >= 0 THEN f.n \div 10 ELSE -((-f.n) \div 10))
                  ELSE NaN
  IN MathMin(MathMax(parseInt, Num(MinFps)), Num(MaxFps))

\* payload.parameters, with the keys that were set
Parameters(callee, keys, w, h, d, f) ==
  [callee |-> callee, keys |-> keys, width |-> w, height |-> h, duration |-> d, fps |-> f]

\* parameters: {} with width and height set when the size holds an 'x' (has
\* more than one part) and both parts parse
sizeParameters(callee, s) ==
  IF Len(s.parts) > 1 /\ ~parseIntPart(s.parts[1]).nan /\ ~parseIntPart(s.parts[2]).nan
  THEN Parameters(callee, {"width", "height"},
                  parseIntPart(s.parts[1]), parseIntPart(s.parts[2]), NaN, NaN)
  ELSE Parameters(callee, {}, NaN, NaN, NaN, NaN)

\* the functions that build a payload from the request's parameters
payloadBuilders(variant, route) ==
  IF variant = "continuous" THEN {"tryRouterVideos", "trySpaces"}
  ELSE IF variant = "frames" THEN {"callHFImage"}
  ELSE IF route = "video" THEN {"tryVideoModels", "callImageModel"}
  ELSE {"callImageModel"}

\* the bodies sent to each endpoint; a field the endpoint does not read is
\* left out.  req.body.size is absent, '', a number or a string;
\* req.body.duration and req.body.fps are absent, a number (in tenths) or
\* text that is no number
FieldsSent ==
  [variant : {"robust", "complete"}, route : {"video"},
   size : {Absent, [k |-> "empty", parts |-> <<>>, n |-> 0], NumVal(0), NumVal(512)}
            \cup {Str(<<Px(w), Px(w)>>) : w \in {-5, 0, 64, 256, 512, 1024, MaxSideField}}
            \cup {Str(<<Px(1), Px(MaxSideField)>>), Str(<<Px(512)>>), Str(<<NoPx, NoPx>>),
                  Str(<<Px(512), NoPx>>), Str(<<Px(256), Px(128), Px(3)>>)},
   duration : {Absent}, fps : {Absent}]
    \cup [variant : {"complete", "frames"}, route : {"frames"},
          size : {Absent, NumVal(0), NumVal(512), Str(<<Px(64), Px(64)>>),
                  Str(<<Px(1), Px(MaxSideField)>>), Str(<<Px(512)>>), Str(<<NoPx, NoPx>>)},
          duration : {Absent}, fps : {Absent}]
    \cup [variant : {"continuous"}, route : {"video"}, size : {Absent},
          duration : {Absent, Text}
            \cup {NumVal(n) : n \in {-10, 0, 1, 5, 30, 75, 120, 121, MaxDurationField}},
          fps : {Absent, Text}
            \cup {NumVal(n) : n \in {-10, 0, 59, 60, 75, 120, 300, 309, 310, MaxFpsField}}]

ParIdle ==
  /\ fields = [variant |-> "", route |-> "", size |-> Absent, duration |-> Absent,
               fps |-> Absent]
  /\ size = Absent
  /\ duration = NaN
  /\ fps = NaN
  /\ parameters = Parameters("", {}, NaN, NaN, NaN, NaN)
  /\ ppc = "idle"

-----------------------------------------------------------------------------
(* One extraction walk followed alone over one parsed value *)

\* the values handed to a walk: strings at and around what the walks test,
\* null, numbers, arrays and objects
WalkValues ==
  {JStr("", FALSE, FALSE, 0), Words, Bytes, Mp4Url, DataVideo, DataImage, LongB64, MidB64,
   JStr("https", FALSE, FALSE, 24), JStr("data:video", TRUE, FALSE, 40),
   JStr("data:image", TRUE, FALSE, 40), JStr("data:audio", FALSE, FALSE, 300)}
    \cup {JStr("", FALSE, TRUE, n) :
            n \in {1, ImageB64Min - 1, ImageB64Min, VideoB64Min - 1, VideoB64Min}}
    \cup {JNull, JNum(0), JNum(20), JArr(<<>>), JObj(<<>>, <<>>)}
    \cup {JArr(<<Words, MidB64, DataImage>>),
          JArr(<<DataImage, LongB64, DataVideo, Mp4Url>>),
          JArr(<<JObj(<<"image">>, <<MidB64>>), DataImage>>),
          JObj(<<"image", "b64">>, <<DataImage, MidB64>>),
          JObj(<<"url">>, <<Mp4Url>>),
          JObj(<<"status", "eta">>, <<Words, JNum(20)>>),
          JObj(<<"out", "10", "2">>, <<DataImage, MidB64, JArr(<<LongB64, Words>>)>>),
          JObj(<<"out", "10", "2">>,
               <<Mp4Url, DataVideo, JArr(<<JStr("https", TRUE, FALSE, 24), Words>>)>>),
          JObj(<<"data", "video">>,
               <<JArr(<<DataVideo, JObj(<<"b64">>, <<LongB64>>), DataVideo>>), Mp4Url>>),
          JObj(<<"data">>,
               <<JArr(<<JObj(<<"note">>, <<Words>>), JArr(<<>>), JNull,
                        JArr(<<JStr("", FALSE, TRUE, ImageB64Min - 1), LongB64>>),
                        DataImage>>)>>)}

WalkIdle ==
  /\ walkIn = JNull
  /\ walkFn = ""
  /\ walkOut = <<>>
  /\ wpc = "idle"

\* a request arriving at a server with one of the configurations C
Arrives(C) ==
  /\ cfg \in C
  /\ req \in [prompt : Prompts, frames : FramesFields]
  /\ cfg.variant = "continuous" => req.frames.k = "absent"   \* the field is not read
  /\ pc = "start"
  /\ models = <<>>
  /\ i = 1
  /\ sp = 1
  /\ pl = 1
  /\ lastErr = -1
  /\ framesRequested = Num(0)
  /\ fi = 0
  /\ frames = <<>>
  /\ jimpImgs = 0
  /\ assembled = 0
  /\ calls = <<>>
  /\ answers = <<>>
  /\ answer = NoAnswer
  /\ inflight = 0
  /\ res = NoRes
  /\ abandoned = FALSE
  /\ AsmIdle
  /\ ClsIdle
  /\ ParIdle
  /\ WalkIdle

Init == Arrives(Configs)

Send(r) == res' = r /\ pc' = "done"

chainVars == <<models, i, sp, pl, lastErr>>
frameVars == <<framesRequested, fi, frames, jimpImgs, assembled>>

(* POST /api/generate-video of the robust and complete variants: the checks *)
(* before the chain                                                         *)
generateVideo ==
  /\ pc = "start"
  /\ cfg.route = "video"
  /\ cfg.variant \in {"robust", "complete"}
  /\ IF cfg.provider # "huggingface" THEN
       /\ Send(Res(400, "Unsupported provider", "", <<>>, 0, <<>>))
       /\ UNCHANGED <<models, i, framesRequested>>
     ELSE IF ~cfg.token THEN
       /\ Send(Res(500, "HUGGINGFACE_API_TOKEN not configured", "", <<>>, 0, <<>>))
       /\ UNCHANGED <<models, i, framesRequested>>
     ELSE IF MissingPrompt(req.prompt) THEN
       /\ Send(Res(400, "Missing prompt", "", <<>>, 0, <<>>))
       /\ UNCHANGED <<models, i, framesRequested>>
     ELSE
       /\ framesRequested' = clampFrames(req.frames, MaxFramesVideo)
       /\ models' = VIDEO_MODELS
       /\ i' = 1
       /\ pc' = "video"
       /\ UNCHANGED res
  /\ UNCHANGED <<asmVars, clsVars, parVars, walkVars, abandoned, cfg, req, sp, pl, lastErr, fi,
                 frames, jimpImgs, assembled, calls, answers, answer, inflight>>

(* tryVideoModels: hfPostModel(model, payload) is issued for VIDEO_MODELS[i] *)
tryVideoModelsCall ==
  /\ pc = "video"
  /\ cfg.variant \in {"robust", "complete"}
  /\ i <= Len(models)
  /\ calls' = Append(calls, Call("router", models[i], req.prompt.s, -1, "", 0))
  /\ inflight' = inflight + 1
  /\ pc' = awaitCall("videoWait", "video")
  /\ UNCHANGED <<asmVars, clsVars, parVars, walkVars, abandoned, cfg, req, chainVars, frameVars,
                 answers, answer, res>>

\* the handler answering without the return, so that it runs on to the frames
videoModelReturn_noReturn(r) ==
  /\ res' = Res(200, "", models[i], videos(r), 0, <<>>)
  /\ pc' = "frames"
  /\ UNCHANGED <<i, fi, frames>>

\* tryVideoModels returned {model, videos}: the handler answers with them
videoModelReturn(r) ==
  /\ Send(Res(200, "", models[i], videos(r), 0, <<>>))
  /\ UNCHANGED <<i, fi, frames>>

\* the handler swallowing the fatal error and going on to the frame loop
videoModelFatal_fallsThrough(r) ==
  /\ pc' = "frames"
  /\ res' = res
  /\ fi' = 0
  /\ frames' = <<>>
  /\ UNCHANGED i

\* tryVideoModels threw the auth error: the catch of the handler answers 500
videoModelFatal(r) ==
  /\ Send(Res(500, "Video model error", "", <<>>, 0, <<Diag(models[i], r.status)>>))
  /\ UNCHANGED <<i, fi, frames>>

\* the model failed or returned no video: continue with the next one
videoModelContinue(r) ==
  /\ i' = nextModel(i)
  /\ pc' = "video"
  /\ UNCHANGED <<res, fi, frames>>

(* tryVideoModels: the awaited call returns r or fails with r; the handler  *)
(* of the route acts on what tryVideoModels returns or throws               *)
tryVideoModelsResponse(r) ==
  /\ pc = "videoWait"
  /\ cfg.variant \in {"robust", "complete"}
  /\ inflight' = inflight - 1
  /\ answer' = Answer("router", r, tryVideoModelsStep(r))
  /\ answers' = Append(answers, answer')
  /\ CASE tryVideoModelsStep(r) = "return" -> videoModelReturn(r)
       [] tryVideoModelsStep(r) = "throw" -> videoModelFatal(r)
       [] OTHER -> videoModelContinue(r)
  /\ UNCHANGED <<asmVars, clsVars, parVars, walkVars, abandoned, cfg, req, models, sp, pl,
                 lastErr, framesRequested, jimpImgs, assembled, calls>>

(* tryVideoModels returns null after the last model; the handler starts the *)
(* frame fallback                                                           *)
\* the handler answering 404 as soon as the video models are used up
tryVideoModelsNone_notAvailable ==
  /\ pc = "video"
  /\ cfg.variant \in {"robust", "complete"}
  /\ i > Len(models)
  /\ Send(Res(404, "Video generation not available", "", <<>>, 0, <<>>))
  /\ UNCHANGED <<asmVars, clsVars, parVars, walkVars, abandoned, cfg, req, chainVars, frameVars,
                 calls, answers, answer, inflight>>

tryVideoModelsNone ==
  /\ pc = "video"
  /\ cfg.variant \in {"robust", "complete"}
  /\ i > Len(models)
  /\ frames' = <<>>
  /\ fi' = 0
  /\ pc' = "frames"
  /\ UNCHANGED <<asmVars, clsVars, parVars, walkVars, abandoned, cfg, req, chainVars,
                 framesRequested, jimpImgs, assembled, calls, answers, answer, inflight, res>>

\* the token put between the prompt and the frame index
frameToken(variant) == IF variant = "frames" THEN " --frame=" ELSE " --frame "

(* the frame loop: callImageModel(variantPrompt, size) is issued for frame fi *)
callImageModelCall ==
  /\ pc = "frames"
  /\ frameLoopRuns(fi, framesRequested)
  /\ cfg.variant = "frames" => cfg.token
  /\ calls' = Append(calls, Call("image", IMAGE_MODEL, req.prompt.s, fi,
                                 frameToken(cfg.variant), 0))
  /\ inflight' = inflight + 1
  /\ pc' = awaitCall("framesWait", "frames")
  /\ UNCHANGED <<asmVars, clsVars, parVars, walkVars, abandoned, cfg, req, chainVars, frameVars,
                 answers, answer, res>>

(* callHFImage throws before any call when the token is not configured *)
callHFImageNoToken ==
  /\ pc = "frames"
  /\ frameLoopRuns(fi, framesRequested)
  /\ cfg.variant = "frames" /\ ~cfg.token
  /\ Send(Res(500, "HUGGINGFACE_API_TOKEN not configured", "", <<>>, 0, <<>>))
  /\ UNCHANGED <<asmVars, clsVars, parVars, walkVars, abandoned, cfg, req, chainVars, frameVars,
                 calls, answers, answer, inflight>>

(* the awaited image call returns r or fails with r: the frame is pushed, or *)
(* the error reaches the catch of the route                                  *)
callImageModelResponse(r) ==
  /\ pc = "framesWait"
  /\ inflight' = inflight - 1
  /\ answer' = Answer("image", r, callImageModelStep(r))
  /\ IF callImageModelStep(r) = "return" THEN
       /\ frames' = Append(frames, [frame |-> fi])
       /\ fi' = nextFrame(fi)
       /\ pc' = "frames"
       /\ UNCHANGED res
     ELSE
       /\ Send(Res(500, IF IsError(r) THEN CatchMessage(r) ELSE "No image returned",
                   "", <<>>, 0, <<>>))
       /\ UNCHANGED <<frames, fi>>
  /\ UNCHANGED <<asmVars, clsVars, parVars, walkVars, abandoned, cfg, req, chainVars,
                 framesRequested, jimpImgs, assembled, calls, answers>>

(* the frame loop ends: /api/generate-frames answers with the frames,       *)
(* /api/generate-video calls assembleGifFromDataUrls, which throws at once  *)
(* on an empty list                                                         *)
frameLoopEnd ==
  /\ pc = "frames"
  /\ ~frameLoopRuns(fi, framesRequested)
  /\ IF cfg.route = "frames" THEN
       /\ Send(Res(200, "", "", frames, 0, <<>>))
       /\ UNCHANGED <<jimpImgs, assembled>>
     ELSE
       /\ assembled' = assembled + 1
       /\ jimpImgs' = 0
       /\ IF Len(frames) = 0
          THEN Send(Res(500, "No frames to assemble", "", <<>>, 0, <<>>))
          ELSE pc' = "assemble" /\ UNCHANGED res
  /\ UNCHANGED <<asmVars, clsVars, parVars, walkVars, abandoned, cfg, req, chainVars,
                 framesRequested, fi, frames, calls, answers, answer, inflight>>

(* assembleGifFromDataUrls: Jimp.read(buffer) of the next frame decodes it  *)
(* or throws                                                                *)
assembleGifRead(decodes) ==
  /\ pc = "assemble"
  /\ jimpImgs < Len(frames)
  /\ IF decodes THEN jimpImgs' = jimpImgs + 1 /\ UNCHANGED <<pc, res>>
     ELSE Send(Res(500, "Could not decode image", "", <<>>, 0, <<>>)) /\ UNCHANGED jimpImgs
  /\ UNCHANGED <<asmVars, clsVars, parVars, walkVars, abandoned, cfg, req, chainVars,
                 framesRequested, fi, frames, assembled, calls, answers, answer, inflight>>

(* assembleGifFromDataUrls: all frames decoded; they are resized, encoded   *)
(* and the handler answers with the GIF                                     *)
assembleGifEncode ==
  /\ pc = "assemble"
  /\ jimpImgs = Len(frames)
  /\ Send(Res(200, "", "frames-gif-fallback", <<[prefix |-> "data:image/gif;base64,"]>>,
              Len(frames), <<>>))
  /\ UNCHANGED <<asmVars, clsVars, parVars, walkVars, abandoned, cfg, req, chainVars, frameVars,
                 calls, answers, answer, inflight>>

(* POST /api/generate-frames: the checks before the frame loop.  The frames *)
(* variant checks the prompt only (its token is checked in callHFImage)     *)
generateFrames ==
  /\ pc = "start"
  /\ cfg.route = "frames"
  /\ IF cfg.variant = "complete" /\ cfg.provider # "huggingface" THEN
       /\ Send(Res(400, "Unsupported provider", "", <<>>, 0, <<>>))
       /\ UNCHANGED framesRequested
     ELSE IF cfg.variant = "complete" /\ ~cfg.token THEN
       /\ Send(Res(500, "HUGGINGFACE_API_TOKEN not configured", "", <<>>, 0, <<>>))
       /\ UNCHANGED framesRequested
     ELSE IF MissingPrompt(req.prompt) THEN
       /\ Send(Res(400, "Missing prompt", "", <<>>, 0, <<>>))
       /\ UNCHANGED framesRequested
     ELSE
       /\ framesRequested' = clampFrames(req.frames, MaxFramesFrames)
       /\ pc' = "frames"
       /\ UNCHANGED res
  /\ UNCHANGED <<asmVars, clsVars, parVars, walkVars, abandoned, cfg, req, chainVars, fi,
                 frames, jimpImgs, assembled, calls, answers, answer, inflight>>

(* POST /api/generate-video of the continuous variant: the prompt check,    *)
(* then tryRouterVideos over getRouterModelList()                           *)
generateVideoContinuous ==
  /\ pc = "start"
  /\ cfg.route = "video"
  /\ cfg.variant = "continuous"
  /\ IF MissingPrompt(req.prompt) THEN
       /\ Send(Res(400, "Missing prompt", "", <<>>, 0, <<>>))
       /\ UNCHANGED <<models, i>>
     ELSE
       /\ models' = getRouterModelList(cfg)
       /\ i' = 1
       /\ pc' = "video"
       /\ UNCHANGED res
  /\ UNCHANGED <<asmVars, clsVars, parVars, walkVars, abandoned, cfg, req, sp, pl, lastErr,
                 frameVars, calls, answers, answer, inflight>>

(* tryRouterVideos: callRouterModel(m, payload) is issued for models[i] *)
tryRouterVideosCall ==
  /\ pc = "video"
  /\ cfg.variant = "continuous"
  /\ i <= Len(models)
  /\ cfg.token
  /\ calls' = Append(calls, Call("router", models[i], req.prompt.s, -1, "", 0))
  /\ inflight' = inflight + 1
  /\ pc' = awaitCall("videoWait", "video")
  /\ UNCHANGED <<asmVars, clsVars, parVars, walkVars, abandoned, cfg, req, chainVars, frameVars,
                 answers, answer, res>>

\* callRouterModel posting to the router although no token is configured
callRouterModelNoToken_calls ==
  /\ pc = "video"
  /\ cfg.variant = "continuous"
  /\ i <= Len(models)
  /\ ~cfg.token
  /\ calls' = Append(calls, Call("router", models[i], req.prompt.s, -1, "", 0))
  /\ inflight' = inflight + 1
  /\ pc' = awaitCall("videoWait", "video")
  /\ UNCHANGED <<asmVars, clsVars, parVars, walkVars, abandoned, cfg, req, chainVars,
                 frameVars, answers, answer, res>>

(* callRouterModel throws before any call when the token is not configured; *)
(* the catch of the loop continues with the next model                      *)
callRouterModelNoToken ==
  /\ pc = "video"
  /\ cfg.variant = "continuous"
  /\ i <= Len(models)
  /\ ~cfg.token
  /\ i' = nextModel(i)
  /\ UNCHANGED <<asmVars, clsVars, parVars, walkVars, abandoned, cfg, req, pc, models, sp, pl,
                 lastErr, frameVars, calls, answers, answer, inflight, res>>

(* tryRouterVideos: the awaited call returns r or fails with r *)
tryRouterVideosResponse(r) ==
  /\ pc = "videoWait"
  /\ cfg.variant = "continuous"
  /\ inflight' = inflight - 1
  /\ answer' = Answer("router", r, tryRouterVideosStep(r))
  /\ answers' = Append(answers, answer')
  /\ IF tryRouterVideosStep(r) = "return" THEN
       /\ Send(Res(200, "", models[i], videos(r), 0, <<>>))
       /\ UNCHANGED i
     ELSE
       /\ i' = nextModel(i)
       /\ pc' = "video"
       /\ UNCHANGED res
  /\ UNCHANGED <<asmVars, clsVars, parVars, walkVars, abandoned, cfg, req, models, sp, pl,
                 lastErr, frameVars, calls>>

\* the 404 body: triedRouterModels and triedSpaces, names only
notAvailable(c) ==
  Res(404, "No continuous video model available", "", <<>>, 0,
      [n \in 1..Len(getRouterModelList(c)) |-> Diag(getRouterModelList(c)[n], -1)]
        \o [n \in 1..Len(getSpacesList(c)) |-> Diag(getSpacesList(c)[n], -1)])

(* tryRouterVideos returns null: trySpaces when Spaces are configured, else *)
(* the 404 answer                                                           *)
tryRouterVideosNone ==
  /\ pc = "video"
  /\ cfg.variant = "continuous"
  /\ i > Len(models)
  /\ IF Len(getSpacesList(cfg)) > 0 THEN
       /\ sp' = 1
       /\ pl' = 1
       /\ lastErr' = -1
       /\ pc' = "spaces"
       /\ UNCHANGED res
     ELSE
       /\ Send(notAvailable(cfg))
       /\ UNCHANGED <<sp, pl, lastErr>>
  /\ UNCHANGED <<asmVars, clsVars, parVars, walkVars, abandoned, cfg, req, models, i, frameVars,
                 calls, answers, answer, inflight>>

(* trySpaces: axios.post(base + '/api/predict', payload) for payload shape pl *)
trySpacesCall ==
  /\ pc = "spaces"
  /\ sp <= Len(getSpacesList(cfg))
  /\ pl <= NumPayloads
  /\ calls' = Append(calls, Call("space", getSpacesList(cfg)[sp], req.prompt.s, -1, "", pl))
  /\ inflight' = inflight + 1
  /\ pc' = awaitCall("spacesWait", "spaces")
  /\ UNCHANGED <<asmVars, clsVars, parVars, walkVars, abandoned, cfg, req, chainVars, frameVars,
                 answers, answer, res>>

\* one payload tried on a Space: "return" the videos found or "continue"
trySpacesStep(r) ==
  IF IsError(r) THEN "continue"
  ELSE IF spaceFound(JSONparse(r.body)) # <<>> THEN "return"
  ELSE "continue"

(* trySpaces: the awaited call returns r or fails with r *)
trySpacesResponse(r) ==
  /\ pc = "spacesWait"
  /\ inflight' = inflight - 1
  /\ answer' = Answer("space", r, trySpacesStep(r))
  /\ IF trySpacesStep(r) = "return" THEN
       /\ Send(Res(200, "", getSpacesList(cfg)[sp], spaceFound(JSONparse(r.body)), 0, <<>>))
       /\ UNCHANGED <<pl, lastErr>>
     ELSE
       /\ lastErr' = IF IsError(r) THEN r.status ELSE lastErr
       /\ pl' = pl + 1
       /\ pc' = "spaces"
       /\ UNCHANGED res
  /\ UNCHANGED <<asmVars, clsVars, parVars, walkVars, abandoned, cfg, req, models, i, sp,
                 frameVars, calls, answers>>

(* trySpaces: every payload shape was tried on the Space; the next Space is *)
(* taken                                                                    *)
trySpacesNext ==
  /\ pc = "spaces"
  /\ sp <= Len(getSpacesList(cfg))
  /\ pl > NumPayloads
  /\ sp' = sp + 1
  /\ pl' = 1
  /\ lastErr' = -1
  /\ UNCHANGED <<asmVars, clsVars, parVars, walkVars, abandoned, cfg, req, pc, models, i,
                 frameVars, calls, answers, answer, inflight, res>>

(* trySpaces returns null: the 404 answer *)
trySpacesNone ==
  /\ pc = "spaces"
  /\ sp > Len(getSpacesList(cfg))
  /\ Send(notAvailable(cfg))
  /\ UNCHANGED <<asmVars, clsVars, parVars, walkVars, abandoned, cfg, req, chainVars, frameVars,
                 calls, answers, answer, inflight>>

Next ==
  \/ generateVideo
  \/ tryVideoModelsCall
  \/ \E r \in VideoResponses : tryVideoModelsResponse(r)
  \/ tryVideoModelsNone
  \/ callImageModelCall
  \/ callHFImageNoToken
  \/ \E r \in ImageResponses : callImageModelResponse(r)
  \/ frameLoopEnd
  \/ \E decodes \in BOOLEAN : assembleGifRead(decodes)
  \/ assembleGifEncode
  \/ generateFrames
  \/ generateVideoContinuous
  \/ tryRouterVideosCall
  \/ callRouterModelNoToken
  \/ \E r \in VideoResponses : tryRouterVideosResponse(r)
  \/ tryRouterVideosNone
  \/ trySpacesCall
  \/ \E r \in VideoResponses : trySpacesResponse(r)
  \/ trySpacesNext
  \/ trySpacesNone

Spec == Init /\ [][Next]_vars

-----------------------------------------------------------------------------
(* assembleGifFromDataUrls called on its own with bounded arguments *)

AssembleInit ==
  /\ cfg = Config("robust", "video", TRUE, "huggingface", FALSE, <<>>, <<>>)
  /\ req = [prompt |-> [k |-> "absent", s |-> ""], frames |-> [k |-> "absent", n |-> 0]]
  /\ pc = "start"
  /\ models = <<>>
  /\ i = 1
  /\ sp = 1
  /\ pl = 1
  /\ lastErr = -1
  /\ framesRequested = Num(0)
  /\ fi = 0
  /\ frames = <<>>
  /\ jimpImgs = 0
  /\ assembled = 0
  /\ calls = <<>>
  /\ answers = <<>>
  /\ answer = NoAnswer
  /\ inflight = 0
  /\ res = NoRes
  /\ abandoned = FALSE
  /\ args \in AssembleArgs
  /\ bitmaps = <<>>
  /\ width = 0
  /\ height = 0
  /\ encoder = NoEncoder
  /\ gif = NoGif
  /\ apc = "call"
  /\ ClsIdle
  /\ ParIdle
  /\ WalkIdle

Throw(msg) == gif' = Threw(msg) /\ apc' = "end"

(* the check at the head: throw new Error('No frames to assemble') *)
noFrames ==
  /\ apc = "call"
  /\ noFramesGiven(args)
  /\ Throw("No frames to assemble")
  /\ UNCHANGED <<handlerVars, clsVars, parVars, walkVars, args, bitmaps, width, height,
                 encoder>>

(* one turn of the loading loop: the buffer of the next entry is taken from *)
(* the data: URL or downloaded, and Jimp.read decodes it or throws          *)
loadFrame ==
  /\ apc = "call"
  /\ ~noFramesGiven(args)
  /\ Len(bitmaps) < Len(args.items)
  /\ LET d == args.items[Len(bitmaps) + 1] IN
       IF ~fetched(d) THEN Throw("download failed") /\ UNCHANGED bitmaps
       ELSE IF ~decoded(d) THEN Throw("Could not decode image") /\ UNCHANGED bitmaps
       ELSE bitmaps' = Append(bitmaps, d.img) /\ UNCHANGED <<gif, apc>>
  /\ UNCHANGED <<handlerVars, clsVars, parVars, walkVars, args, width, height, encoder>>

(* width and height of the first image; every image of another size is     *)
(* resized to them                                                          *)
resizeFrames ==
  /\ apc = "call"
  /\ ~noFramesGiven(args)
  /\ Len(bitmaps) = Len(args.items)
  /\ width' = bitmaps[1].width
  /\ height' = bitmaps[1].height
  /\ bitmaps' = [k \in 1..Len(bitmaps) |->
                   IF bitmaps[k].width # width' \/ bitmaps[k].height # height'
                   THEN resize(bitmaps[k], width', height')
                   ELSE bitmaps[k]]
  /\ apc' = "encoder"
  /\ UNCHANGED <<handlerVars, clsVars, parVars, walkVars, args, encoder, gif>>

(* the encoder is created, set up and started *)
createEncoder ==
  /\ apc = "encoder"
  /\ encoder' = GIFEncoder(width, height, args.delayMs, args.quality)
  /\ apc' = "add"
  /\ UNCHANGED <<handlerVars, clsVars, parVars, walkVars, args, bitmaps, width, height, gif>>

(* encoder.addFrame(img.bitmap.data) for the next image *)
addFrame ==
  /\ apc = "add"
  /\ Len(encoder.frames) < Len(bitmaps)
  /\ encoder' = [encoder EXCEPT
                   !.frames = Append(encoder.frames, bitmaps[Len(encoder.frames) + 1])]
  /\ UNCHANGED <<handlerVars, clsVars, parVars, walkVars, args, bitmaps, width, height, gif,
                 apc>>

(* encoder.finish(); the stream is collected and returned as a data URL *)
finishGif ==
  /\ apc = "add"
  /\ Len(encoder.frames) = Len(bitmaps)
  /\ encoder' = [encoder EXCEPT !.finished = TRUE]
  /\ gif' = Returned(encoder')
  /\ apc' = "end"
  /\ UNCHANGED <<handlerVars, clsVars, parVars, walkVars, args, bitmaps, width, height>>

AssembleNext ==
  \/ noFrames
  \/ loadFrame
  \/ resizeFrames
  \/ createEncoder
  \/ addFrame
  \/ finishGif

AssembleSpec == AssembleInit /\ [][AssembleNext]_vars

-----------------------------------------------------------------------------
(* One 2xx response handled on its own by each function that reads one *)

HandlerIdle ==
  /\ cfg = Config("robust", "video", TRUE, "huggingface", FALSE, <<>>, <<>>)
  /\ req = [prompt |-> [k |-> "absent", s |-> ""], frames |-> [k |-> "absent", n |-> 0]]
  /\ pc = "start"
  /\ models = <<>>
  /\ i = 1
  /\ sp = 1
  /\ pl = 1
  /\ lastErr = -1
  /\ framesRequested = Num(0)
  /\ fi = 0
  /\ frames = <<>>
  /\ jimpImgs = 0
  /\ assembled = 0
  /\ calls = <<>>
  /\ answers = <<>>
  /\ answer = NoAnswer
  /\ inflight = 0
  /\ res = NoRes
  /\ abandoned = FALSE

ClassifyInit ==
  /\ HandlerIdle
  /\ AsmIdle
  /\ ParIdle
  /\ WalkIdle
  /\ input \in Inputs
  /\ cpc = "ct"
  /\ ops = <<>>
  /\ parsed = JNull
  /\ outcome = NoOutcome

End(o) == outcome' = o /\ cpc' = "end"

(* the test of the content type: media bytes are returned as a data URL;   *)
(* POST /generate answers with text or forwards the bytes                   *)
checkContentType ==
  /\ cpc = "ct"
  /\ LET r == input.r IN
       CASE input.fn \in VideoCallees ->
              IF StartsWith(r.ct, "video")
              THEN /\ ops' = <<"base64">>
                   /\ End(Outcome("return", "VideoBytes", <<DataUrl(r.ct, r.body.text)>>))
              ELSE cpc' = "text" /\ UNCHANGED <<ops, outcome>>
         [] input.fn \in ImageCallees ->
              IF StartsWith(r.ct, "image")
              THEN /\ ops' = <<"base64">>
                   /\ End(Outcome("return", "ImageBytes", <<DataUrl(r.ct, r.body.text)>>))
              ELSE cpc' = "text" /\ UNCHANGED <<ops, outcome>>
         [] OTHER ->
              IF isJsonType(r.ct) THEN cpc' = "text" /\ UNCHANGED <<ops, outcome>>
              ELSE IF StartsWith(r.ct, "text")
              THEN ops' = <<"utf8">> /\ End(Outcome("respond", "Text", <<>>))
              ELSE ops' = <<>> /\ End(Outcome("respond", "Binary", <<>>))
  /\ UNCHANGED <<handlerVars, asmVars, parVars, walkVars, input, parsed>>

(* Buffer.from(resp.data).toString('utf8') and JSON.parse(text): the video *)
(* functions keep the text when it does not parse, the image functions     *)
(* leave their try block, POST /generate answers with the value or the raw *)
(* text                                                                     *)
decodeAndParse ==
  /\ cpc = "text"
  /\ ops' = ops \o <<"utf8", "JSON.parse">>
  /\ LET b == input.r.body IN
       CASE input.fn \in VideoCallees ->
              parsed' = JSONparse(b) /\ cpc' = "scan" /\ UNCHANGED outcome
         [] input.fn \in ImageCallees ->
              IF b.json THEN parsed' = b.val /\ cpc' = "scan" /\ UNCHANGED outcome
              ELSE UNCHANGED parsed /\ End(Outcome("throw", "Text", <<>>))
         [] OTHER ->
              /\ parsed' = IF b.json THEN b.val ELSE JObj(<<"raw">>, <<b.text>>)
              /\ End(Outcome("respond", IF b.json THEN "StructuredData" ELSE "Text", <<>>))
  /\ UNCHANGED <<handlerVars, asmVars, parVars, walkVars, input>>

(* the walk over the value: find / findUrls / findImgs *)
scanValue ==
  /\ cpc = "scan"
  /\ ops' = Append(ops, "find")
  /\ LET class == IF input.r.body.json THEN "StructuredData" ELSE "Text" IN
       IF input.fn \in VideoCallees
       THEN End(Outcome(IF find(parsed) # <<>> THEN "return" ELSE "continue", class,
                        find(parsed)))
       ELSE End(Outcome(IF findImage(parsed, <<>>) # <<>> THEN "return" ELSE "throw", class,
                        findImage(parsed, <<>>)))
  /\ UNCHANGED <<handlerVars, asmVars, parVars, walkVars, input, parsed>>

ClassifyNext ==
  \/ checkContentType
  \/ decodeAndParse
  \/ scanValue

ClassifySpec == ClassifyInit /\ [][ClassifyNext]_vars

-----------------------------------------------------------------------------
(* The parameters of one request followed alone *)

ParamsInit ==
  /\ HandlerIdle
  /\ AsmIdle
  /\ ClsIdle
  /\ WalkIdle
  /\ fields \in FieldsSent
  /\ size = Absent
  /\ duration = NaN
  /\ fps = NaN
  /\ parameters = Parameters("", {}, NaN, NaN, NaN, NaN)
  /\ ppc = "read"

(* const size = String(req.body.size || '256x256') *)
readSizeField ==
  /\ ppc = "read"
  /\ fields.variant # "continuous"
  /\ size' = readSize(fields.variant, fields.route, fields.size)
  /\ ppc' = "call"
  /\ UNCHANGED <<handlerVars, asmVars, clsVars, walkVars, fields, duration, fps, parameters>>

(* const duration = ..; const fps = ..; *)
readDurationFps ==
  /\ ppc = "read"
  /\ fields.variant = "continuous"
  /\ duration' = clampDuration(fields.duration)
  /\ fps' = clampFps(fields.fps)
  /\ ppc' = "call"
  /\ UNCHANGED <<handlerVars, asmVars, clsVars, walkVars, fields, size, parameters>>

(* tryVideoModels, callImageModel, callHFImage: the payload of the call *)
buildSizePayload(callee) ==
  /\ ppc = "call"
  /\ fields.variant # "continuous"
  /\ size.k = "str"
  /\ parameters' = sizeParameters(callee, size)
  /\ ppc' = "sent"
  /\ UNCHANGED <<handlerVars, asmVars, clsVars, walkVars, fields, size, duration, fps>>

(* callHFImage given a number: size.includes is not a function, the call   *)
(* is not made and the handler's catch answers 500                          *)
sizeNotAString ==
  /\ ppc = "call"
  /\ fields.variant # "continuous"
  /\ size.k # "str"
  /\ ppc' = "threw"
  /\ UNCHANGED <<handlerVars, asmVars, clsVars, walkVars, fields, size, duration, fps,
                 parameters>>

(* tryRouterVideos: parameters: { duration: durationSec, fps };            *)
(* trySpaces: the extra { duration, fps } of the fifth payload              *)
buildRatePayload(callee) ==
  /\ ppc = "call"
  /\ fields.variant = "continuous"
  /\ parameters' = Parameters(callee, {"duration", "fps"}, NaN, NaN, duration, fps)
  /\ ppc' = "sent"
  /\ UNCHANGED <<handlerVars, asmVars, clsVars, walkVars, fields, size, duration, fps>>

ParamsNext ==
  \/ readSizeField
  \/ readDurationFps
  \/ \E callee \in payloadBuilders(fields.variant, fields.route) : buildSizePayload(callee)
  \/ sizeNotAString
  \/ \E callee \in payloadBuilders(fields.variant, fields.route) : buildRatePayload(callee)

ParamsSpec == ParamsInit /\ [][ParamsNext]_vars

-----------------------------------------------------------------------------
(* One extraction walk followed alone *)

WalkInit ==
  /\ HandlerIdle
  /\ AsmIdle
  /\ ClsIdle
  /\ ParIdle
  /\ walkIn \in WalkValues
  \* find of the video functions, find of callImageModel (found flag),
  \* findImgs of callHFImage (early return)
  /\ walkFn \in {"find", "find/image", "findImgs"}
  /\ walkOut = <<>>
  /\ wpc = "call"

(* (function find(o){ .. found.push(..) .. })(parsed) *)
walkVideo ==
  /\ wpc = "call"
  /\ walkFn = "find"
  /\ walkOut' = find(walkIn)
  /\ wpc' = "end"
  /\ UNCHANGED <<handlerVars, asmVars, clsVars, parVars, walkIn, walkFn>>

(* let found = null; (function find(o){ if (found) return; .. })(parsed) *)
walkImage ==
  /\ wpc = "call"
  /\ walkFn = "find/image"
  /\ walkOut' = findImage(walkIn, <<>>)
  /\ wpc' = "end"
  /\ UNCHANGED <<handlerVars, asmVars, clsVars, parVars, walkIn, walkFn>>

(* const found = findImgs(parsed) *)
walkImgs ==
  /\ wpc = "call"
  /\ walkFn = "findImgs"
  /\ walkOut' = findImgs(walkIn)
  /\ wpc' = "end"
  /\ UNCHANGED <<handlerVars, asmVars, clsVars, parVars, walkIn, walkFn>>

WalkNext ==
  \/ walkVideo
  \/ walkImage
  \/ walkImgs

WalkSpec == WalkInit /\ [][WalkNext]_vars

-----------------------------------------------------------------------------
(* POST /api/generate-video of the robust and complete servers alone *)

VideoInit == Init /\ cfg.variant \in {"robust", "complete"} /\ cfg.route = "video"

VideoNext ==
  \/ generateVideo
  \/ tryVideoModelsCall
  \/ \E r \in VideoResponses : tryVideoModelsResponse(r)
  \/ tryVideoModelsNone
  \/ callImageModelCall
  \/ \E r \in ImageResponses : callImageModelResponse(r)
  \/ frameLoopEnd
  \/ \E decodes \in BOOLEAN : assembleGifRead(decodes)
  \/ assembleGifEncode

(* Every outbound call carries a timeout and so returns or fails, and the  *)
(* event loop runs a handler that can take a step: a step that stays       *)
(* possible is taken                                                        *)
LiveSpec == VideoInit /\ [][VideoNext]_vars /\ WF_vars(VideoNext)

(* The same handler with a client that may close the connection before the *)
(* response is sent.  The handler registers no listener on the request or  *)
(* the socket and passes no signal to axios, so that the close changes     *)
(* nothing it reads.                                                        *)
clientAbandons ==
  /\ pc # "done"
  /\ ~abandoned
  /\ abandoned' = TRUE
  /\ UNCHANGED <<asmVars, clsVars, parVars, walkVars, cfg, req, pc, chainVars, frameVars, calls,
                 answers, answer, inflight, res>>

AbandonSpec == VideoInit /\ [][VideoNext \/ clientAbandons]_vars

-----------------------------------------------------------------------------
(* POST /api/generate-video of the continuous server alone, with more than *)
(* one Space configured                                                     *)

ContinuousConfigs ==
  {Config("continuous", "video", t, "huggingface", FALSE, <<>>, SubSeq(SpaceNames, 1, ns)) :
     t \in BOOLEAN, ns \in 0..MaxChainSpaces}
  \cup {Config("continuous", "video", t, "huggingface", TRUE, SubSeq(EnvModelNames, 1, nm),
               SubSeq(SpaceNames, 1, ns)) :
     t \in BOOLEAN, nm \in 0..MaxEnvModels, ns \in 0..MaxChainSpaces}

ContinuousNext ==
  \/ generateVideoContinuous
  \/ tryRouterVideosCall
  \/ callRouterModelNoToken
  \/ \E r \in VideoResponses : tryRouterVideosResponse(r)
  \/ tryRouterVideosNone
  \/ trySpacesCall
  \/ \E r \in VideoResponses : trySpacesResponse(r)
  \/ trySpacesNext
  \/ trySpacesNone

ContinuousSpec == Arrives(ContinuousConfigs) /\ [][ContinuousNext]_vars

-----------------------------------------------------------------------------
(* Properties *)

ImageCalls == SelectSeq(calls, LAMBDA c : c.kind = "image")

\* the request was turned away by the checks at the head of the handler
Rejected ==
  /\ pc = "done"
  /\ res.error \in {"Unsupported provider", "HUGGINGFACE_API_TOKEN not configured",
                    "Missing prompt"}
Accepted == pc # "start" /\ ~Rejected

\* the latest call was answered and the answer held media for a video chain
Succeeded == answer.kind \in {"router", "space"} /\ answer.media > 0

\* C1: once a video backend has answered with a success (raw video bytes or
\* at least one extracted reference), the request is answered with that
\* backend's videos and that call stays the last outbound call: no backend
\* after it is invoked, no image call is made and the assembler is not run.
C1_SuccessEndsChain ==
  Succeeded =>
    /\ inflight = 0
    /\ pc = "done"
    /\ res.code = 200
    /\ res.model = calls[Len(calls)].to
    /\ res.media # <<>>
    /\ ImageCalls = <<>>
    /\ assembled = 0

C1_Witness ==
  /\ Succeeded
  /\ answer.kind = "router"
  /\ Len(calls) = 2
  /\ pc = "done"

\* C2: once an attempt has ended in the fatal failure (tryVideoModels threw
\* the auth error), the request is answered with the error and no further
\* outbound call is made: no later video model, no image call, no assembler.
C2_FatalEndsRequest ==
  (answer.kind = "router" /\ answer.step = "throw") =>
    /\ inflight = 0
    /\ pc = "done"
    /\ res.code = 500
    /\ res.error = "Video model error"
    /\ Len(calls) = Len(answers)
    /\ ImageCalls = <<>>
    /\ assembled = 0

C2_Witness ==
  /\ answer.kind = "router"
  /\ answer.step = "throw"
  /\ Len(calls) = 3
  /\ pc = "done"

\* C3: for every backend of any kind (router model or Space) a 401 or 403
\* answer is the fatal failure: the request ends at once with the fatal error
\* naming that backend and its status, so that when every backend answers 401
\* exactly one call is made in total.
C3_AuthStatusIsFatal ==
  /\ (inflight = 0 /\ answer.kind \in {"router", "space"} /\ answer.status \in {401, 403}) =>
       /\ answer.step = "throw"
       /\ pc = "done"
       /\ res.code = 500
       /\ res.diag = <<Diag(calls[Len(calls)].to, answer.status)>>
  /\ (answers # <<>> /\ \A k \in 1..Len(answers) : answers[k].status = 401) =>
       Len(calls) = 1

\* the outcomes after which the chain moves on
Recoverable(a) ==
  \/ a.status = 0
  \/ a.status >= 400 /\ a.status \notin {401, 403}
  \/ a.status \in 200..299 /\ a.media = 0

\* C4: the k-th router call goes to the k-th model of the list, and when its
\* attempt ended in a recoverable failure or a 2xx answer without a video
\* reference, and it is not the last, the very next outbound call is the one
\* to model k+1 (none skipped, none called again).
C4_NextBackendInOrder ==
  \A k \in 1..Len(answers) :
    /\ calls[k].kind = "router"
    /\ calls[k].to = models[k]
    /\ (Recoverable(answers[k]) /\ k < Len(models)) =>
         IF k < Len(calls)
         THEN calls[k + 1].kind = "router" /\ calls[k + 1].to = models[k + 1]
         ELSE pc = "video" /\ i = k + 1

C4_Witness ==
  /\ Len(calls) = 4
  /\ Len(answers) = 3
  /\ answers[1].status = 404
  /\ answers[2].status = 0
  /\ answers[3].status = 200
  /\ calls[4].to = models[4]

\* every backend of the chain was tried and none succeeded or aborted
ExhaustedChain ==
  /\ cfg.route = "video"
  /\ Accepted
  /\ i > Len(models)
  /\ sp > Len(getSpacesList(cfg))

EnteredFrames == ImageCalls # <<>> \/ assembled > 0

\* C5, as claimed: whenever the whole backend list is exhausted with no
\* success and no fatal abort, a terminal error is returned only after the
\* frame-synthesis pipeline has been entered and has failed.
C5_ExhaustionEntersFrames ==
  (ExhaustedChain /\ pc = "done" /\ res.code >= 400) => EnteredFrames

\* C5, amended: in the robust and complete variants an exhausted chain leads
\* into the frame loop, and a failure is answered only from there (a failed
\* image call or the assembler); the continuous variant has no frame fallback
\* and answers 404 with the names of the models and Spaces.
C5_ExhaustionByVariant ==
  /\ (ExhaustedChain /\ cfg.variant \in {"robust", "complete"}) =>
       /\ pc \in {"video", "frames", "framesWait", "assemble", "done"}
       /\ (pc = "done" /\ res.code >= 400) =>
            /\ EnteredFrames
            /\ (answer.kind = "image" /\ answer.step = "throw") \/ assembled = 1
  /\ (ExhaustedChain /\ cfg.variant = "continuous" /\ pc = "done") =>
       /\ res = notAvailable(cfg)
       /\ ~EnteredFrames

C5_Witness ==
  /\ ExhaustedChain
  /\ cfg.variant = "robust"
  /\ pc = "done"
  /\ res.code = 500
  /\ Len(ImageCalls) = 3

\* the situation of the scenario: no frame count given, every video model
\* answered 404, every image call succeeded, the request is answered
AllModels404AllImagesOk ==
  /\ cfg.variant \in {"robust", "complete"}
  /\ cfg.route = "video"
  /\ pc = "done"
  /\ req.frames.k = "absent"
  /\ Len(answers) = Len(models)
  /\ \A k \in 1..Len(answers) : answers[k].status = 404
  /\ answer.kind = "image"
  /\ answer.media > 0

FrameFallbackResultOf8 ==
  /\ Len(ImageCalls) = 8
  /\ assembled = 1
  /\ res.code = 200
  /\ res.model = "frames-gif-fallback"
  /\ Len(res.media) = 1
  /\ res.frames = 8

\* C6, as claimed: if every video backend answers 404 and every image call
\* succeeds, and no frame count is given, then exactly 8 image calls are made,
\* the assembler is invoked once and the result is the frame-fallback one with
\* one animated image and a frame count of 8.
C6_FallbackScenario == AllModels404AllImagesOk => FrameFallbackResultOf8

\* C6, amended: the same, provided every returned frame decodes as an image.
C6_FallbackScenarioDecoded ==
  (AllModels404AllImagesOk /\ res.error # "Could not decode image") => FrameFallbackResultOf8

C6_Witness == AllModels404AllImagesOk /\ FrameFallbackResultOf8

\* C7: the image calls never outnumber the clamped frame count, and the j-th
\* of them (from 0) sends the base prompt with the token for index j: the
\* indices are 0, 1, 2, ... with none repeated or skipped.
C7_FrameCallsInOrder ==
  /\ Len(ImageCalls) <= (IF framesRequested.nan THEN 0 ELSE framesRequested.n)
  /\ \A j \in 1..Len(ImageCalls) :
       /\ ImageCalls[j].frame = j - 1
       /\ ImageCalls[j].prompt = req.prompt.s
       /\ ImageCalls[j].sep = frameToken(cfg.variant)
       /\ ImageCalls[j].to = IMAGE_MODEL

C7_Witness ==
  /\ ~framesRequested.nan
  /\ Len(ImageCalls) = framesRequested.n
  /\ framesRequested.n = 16
  /\ pc = "done"

Clamp(n, lo, hi) == IF n < lo THEN lo ELSE IF n > hi THEN hi ELSE n

\* C8, as claimed: for every integer frame count requested, the count used on
\* both endpoints is the request clamped to [4, 24].
C8_ClampTo4And24 ==
  (Accepted /\ cfg.route \in {"video", "frames"} /\ cfg.variant # "continuous"
     /\ req.frames.k = "int") =>
    framesRequested = Num(Clamp(req.frames.n, 4, 24))

\* C8, amended: /api/generate-frames clamps to [4, 24] and the fallback of
\* /api/generate-video to [4, 16]; a request of 0 counts as absent and gives 8.
C8_ClampByEndpoint ==
  (Accepted /\ cfg.variant # "continuous" /\ req.frames.k = "int") =>
    framesRequested =
      Num(IF req.frames.n = 0 THEN 8
          ELSE Clamp(req.frames.n, 4, IF cfg.route = "video" THEN 16 ELSE 24))

C8_Witness ==
  /\ Accepted
  /\ cfg.route = "video"
  /\ req.frames.k = "int"
  /\ req.frames.n > 24
  /\ framesRequested = Num(16)

\* C9: when the image call for a frame yields anything but an image (HTTP
\* error, transport failure, 2xx without an image), it is the last outbound
\* call, the assembler is not run, and the request ends in a failure that
\* holds no animated image and no frames.
C9_FrameFailureAborts ==
  (answer.kind = "image" /\ answer.media = 0) =>
    /\ inflight = 0
    /\ pc = "done"
    /\ res.code = 500
    /\ res.media = <<>>
    /\ res.frames = 0
    /\ assembled = 0
    /\ calls[Len(calls)].kind = "image"
    /\ calls[Len(calls)].frame = Len(frames)

C9_Witness ==
  /\ answer.kind = "image"
  /\ answer.media = 0
  /\ answer.status = 200
  /\ Len(frames) = 2
  /\ pc = "done"

\* C10: a request that ends in terminal exhaustion returns one diagnostic
\* entry for every backend attempted, recording that backend's outcome.
C10_TrailOnExhaustion ==
  (ExhaustedChain /\ pc = "done" /\ res.code >= 400) =>
    \A k \in 1..Len(answers) :
      \E d \in 1..Len(res.diag) :
        /\ res.diag[d].backend = calls[k].to
        /\ res.diag[d].status = answers[k].status

ChainCall(c) == c.kind \in {"router", "space"}

\* C11, as claimed: every backend of the chain (router model or Space)
\* receives at most one HTTP call per request.
C11_OneCallPerBackend ==
  \A j, k \in 1..Len(calls) :
    (j < k /\ ChainCall(calls[j]) /\ ChainCall(calls[k])) => calls[j].to # calls[k].to

\* C11, amended: every router model of the list receives at most one call;
\* a Space receives at most five, one per payload shape, in the order of the
\* shapes, and only after each earlier shape has failed or held no video.
C11_OneCallPerModelFivePerSpace ==
  /\ \A j, k \in 1..Len(calls) :
       (j < k /\ calls[j].kind = "router" /\ calls[k].kind = "router") =>
         calls[j].to # calls[k].to
  /\ \A k \in 1..Len(calls) :
       calls[k].kind = "space" =>
         /\ calls[k].payload \in 1..5
         /\ calls[k].payload > 1 =>
              /\ k > 1
              /\ calls[k - 1].kind = "space"
              /\ calls[k - 1].to = calls[k].to
              /\ calls[k - 1].payload = calls[k].payload - 1
         /\ (calls[k].payload = 1 /\ k > 1 /\ calls[k - 1].kind = "space") =>
              /\ calls[k - 1].to # calls[k].to
              /\ calls[k - 1].payload = 5
  /\ (answer.kind = "space" /\ inflight = 0 /\ pc # "done") => answer.media = 0

C11_Witness ==
  /\ Len(calls) = Len(models) + 5
  /\ Len(models) = 4
  /\ calls[Len(calls)].kind = "space"
  /\ calls[Len(calls)].payload = 5
  /\ answer.kind = "space"
  /\ answer.status = 200
  /\ pc = "done"

\* the first entry of the frame list that yields no image
Unreadable(d) == d.img = NoImage
FirstUnreadable ==
  CHOOSE k \in 1..Len(args.items) :
    /\ Unreadable(args.items[k])
    /\ \A j \in 1..(k - 1) : ~Unreadable(args.items[j])

\* C12: for every non-empty list of decodable frames, whatever their sizes,
\* the encoder's canvas has the width and height of the first frame of the
\* input and so has every frame handed to the encoder.
C12_FramesHaveFirstSize ==
  encoder # NoEncoder =>
    /\ encoder.width = args.items[1].img.width
    /\ encoder.height = args.items[1].img.height
    /\ \A k \in 1..Len(encoder.frames) :
         /\ encoder.frames[k].width = args.items[1].img.width
         /\ encoder.frames[k].height = args.items[1].img.height

C12_Witness ==
  /\ apc = "end"
  /\ gif.kind = "return"
  /\ Len(gif.gif.frames) = 3
  /\ \A j, k \in 1..3 : j # k => args.items[j].img # args.items[k].img

C14_FramesInOrder ==
  (apc = "end" /\ ~noFramesGiven(args)
     /\ \A k \in 1..Len(args.items) : ~Unreadable(args.items[k])) =>
    /\ gif.kind = "return"
    /\ gif.prefix = "data:image/gif;base64,"
    /\ gif.gif = encoder
    /\ encoder.finished
    /\ Len(encoder.frames) = Len(args.items)
    /\ \A k \in 1..Len(args.items) : encoder.frames[k].color = args.items[k].img.color
    /\ encoder.repeat = 0
    /\ encoder.delay = args.delayMs
    /\ encoder.quality = args.quality

C14_Witness ==
  /\ apc = "end"
  /\ gif.kind = "return"
  /\ Len(encoder.frames) = 3
  /\ encoder.frames[1].color = "blue"
  /\ encoder.frames[2].color = "red"
  /\ encoder.frames[3].color = "green"
  /\ encoder.delay = 80

Ended == cpc = "end"
Did(op) == \E n \in 1..Len(ops) : ops[n] = op

\* C15, as claimed: the class of a response is decided by its content type
\* alone, video/ first, then image/, then JSON (Text when it does not
\* parse), then text, else unrecognized; a 2xx answer to a video backend with
\* an image/ content type is image bytes, neither decoded as text nor scanned.
C15_ClassByContentType ==
  Ended =>
    LET ct == input.r.ct IN
      /\ outcome.class \in
           IF ct.type = "video" THEN {"VideoBytes", "Binary"}
           ELSE IF ct.type = "image" THEN {"ImageBytes", "Binary"}
           ELSE IF isJsonType(ct)
                THEN {IF input.r.body.json THEN "StructuredData" ELSE "Text"}
           ELSE IF ct.type = "text" THEN {"Text"}
           ELSE {"Unrecognized", "Binary"}
      /\ (input.fn \in VideoCallees /\ ct.type = "image") =>
           ~Did("utf8") /\ ~Did("JSON.parse") /\ ~Did("find")

\* C15, amended: the video functions know one media class, video/; every
\* other content type, image/ included, is decoded as text, parsed and
\* scanned.  The image functions know image/ alone in the same way.  POST
\* /generate parses JSON types, answers text types as text and forwards the
\* rest as bytes.
C15_ClassByFunction ==
  Ended =>
    LET ct == input.r.ct
        b == input.r.body
        own == IF input.fn \in VideoCallees THEN "video" ELSE "image"
    IN IF input.fn = "generate" THEN
         outcome.class = IF isJsonType(ct) THEN (IF b.json THEN "StructuredData" ELSE "Text")
                         ELSE IF ct.type = "text" THEN "Text"
                         ELSE "Binary"
       ELSE IF ct.type = own THEN
         /\ outcome.class = IF own = "video" THEN "VideoBytes" ELSE "ImageBytes"
         /\ ops = <<"base64">>
       ELSE
         /\ outcome.class = IF b.json THEN "StructuredData" ELSE "Text"
         /\ Did("utf8") /\ Did("JSON.parse")
         /\ Did("find") <=> (input.fn \in VideoCallees \/ b.json)

C15_Witness ==
  /\ Ended
  /\ input.fn = "tryVideoModels"
  /\ input.r.ct = Ct("image", "png")
  /\ input.r.body = Raw(Mp4Url)
  /\ outcome.kind = "return"
  /\ Did("find")

\* C16: a response whose content type begins with video/ is returned by the
\* video functions as one inline reference carrying that content type, and
\* the body is neither parsed as JSON nor scanned, whatever it holds.
C16_VideoBytesReturnedAsIs ==
  (Ended /\ input.fn \in VideoCallees /\ input.r.ct.type = "video") =>
    /\ outcome = Outcome("return", "VideoBytes", <<DataUrl(input.r.ct, input.r.body.text)>>)
    /\ outcome.refs[1].ct = input.r.ct
    /\ ops = <<"base64">>

C16_Witness ==
  /\ Ended
  /\ input.fn = "tryRouterVideos"
  /\ input.r.ct = Ct("video", "webm")
  /\ input.r.body = Parsed(JObj(<<"url">>, <<Mp4Url>>))
  /\ Len(outcome.refs) = 1

\* C17: for video and image backends alike, a 2xx body that is no JSON never
\* makes the function fail: it is kept as text and the extraction is applied
\* to that text as to a parsed string value.
C17_UnparsableBodyScannedAsText ==
  (Ended /\ input.fn \in VideoCallees \cup ImageCallees /\ Did("JSON.parse")
     /\ ~input.r.body.json) =>
    /\ outcome.refs = IF input.fn \in VideoCallees THEN find(input.r.body.text)
                      ELSE findImage(input.r.body.text, <<>>)
    /\ outcome.refs # <<>> => outcome.kind = "return"

\* C18: a 2xx JSON body that is an object with one string field holding a
\* URL ending in .mp4 yields exactly one reference, that very string with
\* nothing put in front, and the attempt succeeds.
C18_SingleMp4Url ==
  (Ended /\ input.fn \in VideoCallees /\ isJsonType(input.r.ct) /\ input.r.body.json
     /\ input.r.body.val.t = "obj" /\ Len(input.r.body.val.v) = 1
     /\ input.r.body.val.v[1].t = "str" /\ input.r.body.val.v[1].mp4) =>
    /\ outcome.kind = "return"
    /\ outcome.refs = <<[prefix |-> "", s |-> input.r.body.val.v[1]]>>
    /\ tryVideoModelsStep(input.r) = "return"
    /\ tryRouterVideosStep(input.r) = "return"
    /\ videos(input.r) = outcome.refs

C18_Witness ==
  /\ Ended
  /\ input.fn = "tryRouterVideos"
  /\ input.r.ct = Ct("application", "json")
  /\ input.r.body = Parsed(JObj(<<"url">>, <<Mp4Url>>))
  /\ outcome.refs = <<Ref("", Mp4Url)>>

\* the strings of a value in visiting order, objects taken in the order
\* their fields were declared (declared) or with array-index keys first
RECURSIVE Join(_)
Join(ss) == IF Len(ss) = 0 THEN <<>> ELSE Join(SubSeq(ss, 1, Len(ss) - 1)) \o ss[Len(ss)]

InKeyOrder(o) ==
  LET S == {n \in 1..Len(o.k) : o.k[n] \in {"0", "1", "2", "10"}}
      T == {n \in 1..Len(o.k) : n \notin S}
      pos(n) == IF n \in S
                THEN Cardinality({x \in S : IndexOf(o.k[x]) <= IndexOf(o.k[n])})
                ELSE Cardinality(S) + Cardinality({x \in T : x <= n})
  IN [j \in 1..Len(o.k) |-> o.v[CHOOSE n \in 1..Len(o.k) : pos(n) = j]]

RECURSIVE Leaves(_, _)
Leaves(o, declared) ==
  IF o.t = "str" THEN <<o>>
  ELSE IF o.t \in {"arr", "obj"} THEN
    LET vs == IF o.t = "arr" \/ declared THEN o.v ELSE InKeyOrder(o)
    IN Join([n \in 1..Len(vs) |-> Leaves(vs[n], declared)])
  ELSE <<>>

VideoLike(st) ==
  st.len > 0 /\ (st.pre = "data:video" \/ st.mp4 \/ (st.b64 /\ st.len >= 200))
AsVideoRef(st) ==
  [prefix |-> IF st.pre = "data:video" \/ st.mp4 THEN "" ELSE "data:video/mp4;base64,",
   s |-> st]
Matches(o, declared) ==
  LET m == SelectSeq(Leaves(o, declared), VideoLike)
  IN [j \in 1..Len(m) |-> AsVideoRef(m[j])]

\* C19, as claimed: the video walk visits object fields in declaration order
\* and sequence elements in index order, depth first, and returns the
\* matching strings in that order, each as often as it occurs.
C19_DeclarationOrder ==
  (Ended /\ input.fn \in VideoCallees /\ Did("find")) =>
    outcome.refs = Matches(parsed, TRUE)

\* C19, amended: the same, except that the fields of an object whose keys
\* are array indices ("2", "10") are visited first, in ascending order of
\* the index, before its other fields in declaration order.
C19_ObjectValuesOrder ==
  (Ended /\ input.fn \in VideoCallees /\ Did("find")) =>
    outcome.refs = Matches(parsed, FALSE)

C19_Witness ==
  /\ Ended
  /\ input.fn = "tryVideoModels"
  /\ input.r.body = Parsed(JObj(<<"data", "video">>,
       <<JArr(<<DataVideo, JObj(<<"b64">>, <<LongB64>>), DataVideo>>), Mp4Url>>))
  /\ outcome.refs = <<Ref("", DataVideo), Ref("data:video/mp4;base64,", LongB64),
                      Ref("", DataVideo), Ref("", Mp4Url)>>

NoPrompt == req.prompt.k = "absent" \/ req.prompt.s \in {"", "   "}

\* C20, as claimed: a request whose prompt is missing, empty or only blanks
\* is rejected with HTTP 400 and causes no outbound call of any kind.
C20_NoPromptIs400 ==
  (NoPrompt /\ pc # "start") =>
    /\ pc = "done"
    /\ res.code = 400
    /\ calls = <<>>
    /\ inflight = 0

\* C20, amended: such a request causes no outbound call and is answered at
\* once: with 400 "Missing prompt", except that the robust and complete
\* variants check the provider and the token first and answer 400
\* "Unsupported provider" or 500 "HUGGINGFACE_API_TOKEN not configured".
C20_NoPromptNoCalls ==
  (NoPrompt /\ pc # "start") =>
    /\ pc = "done"
    /\ calls = <<>>
    /\ inflight = 0
    /\ assembled = 0
    /\ res = IF cfg.variant \in {"robust", "complete"} /\ cfg.provider # "huggingface"
             THEN Res(400, "Unsupported provider", "", <<>>, 0, <<>>)
             ELSE IF cfg.variant \in {"robust", "complete"} /\ ~cfg.token
             THEN Res(500, "HUGGINGFACE_API_TOKEN not configured", "", <<>>, 0, <<>>)
             ELSE Res(400, "Missing prompt", "", <<>>, 0, <<>>)

C20_Witness ==
  /\ req.prompt.s = "   "
  /\ cfg.variant = "continuous"
  /\ cfg.token
  /\ pc = "done"
  /\ res.code = 400
  /\ calls = <<>>

-----------------------------------------------------------------------------
\* the sizes the sources name themselves: '256x256' and '512x512'
NamedSizes == {<<256, 256>>, <<512, 512>>}
SentSize == ppc = "sent" /\ "width" \in parameters.keys

\* C21: the width and height placed in the payload of a backend call belong
\* to a closed list of sizes, whatever size the client supplied; a size
\* outside the list is not forwarded as given.  The list is taken to be the
\* sizes the handlers name; the handlers forward any two integers.
C21_SizeInAllowList ==
  SentSize => <<parameters.width.n, parameters.height.n>> \in NamedSizes

-----------------------------------------------------------------------------
\* C22: once the client has abandoned the request, no further outbound call
\* is issued for it, and nothing that arrives afterwards is assembled into a
\* GIF.
C22_NothingAfterAbandonment ==
  [][abandoned => (calls' = calls /\ assembled' = assembled)]_vars

-----------------------------------------------------------------------------
\* C23: within one request at most one outbound call is in flight at any
\* moment, and a call (to the next video backend, Space payload or frame
\* index) is issued only when the previous call of the request has returned
\* or failed.
C23_OneCallInFlight ==
  /\ [](inflight <= 1)
  /\ [][calls' # calls => (inflight = 0 /\ inflight' = 1 /\ Len(calls') = Len(calls) + 1)]_vars

\* a later frame's image call in flight, the calls before it all settled
C23_Witness == inflight = 1 /\ Len(ImageCalls) >= 2 /\ Len(calls) > Len(ImageCalls)

-----------------------------------------------------------------------------
\* C24: with every outbound call returning or failing in the end, every
\* request reaches the terminal state, where exactly one response has been
\* sent: none before, and none replacing it after.  A video backend that
\* timed out is left for the next one, with no response sent.
C24_ExactlyOneResponse ==
  /\ <>(pc = "done")
  /\ [](pc = "done" <=> res # NoRes)
  /\ [][res # NoRes => res' = res]_vars
  /\ [][(pc = "videoWait" /\ pc' # pc /\ answer'.status = 0)
          => (pc' = "video" /\ i' = i + 1 /\ res' = NoRes)]_vars

\* a request that was answered after a video backend had timed out
C24_Witness ==
  /\ pc = "done"
  /\ res # NoRes
  /\ Len(calls) > 1
  /\ \E k \in 1..Len(answers) : answers[k].status = 0

-----------------------------------------------------------------------------
\* the request was answered with the videos of a router model
DirectVideo == pc = "done" /\ res.code = 200 /\ answer.kind = "router"

\* C25: when the result is a direct-video success, the model named in it is
\* the first of the list whose attempt succeeded: every model before it was
\* called exactly once, in order, and ended without a video and without the
\* fatal failure; and the videos returned are not empty.
C25_FirstSuccessNamed ==
  DirectVideo =>
    LET n == Len(answers) IN
      /\ n \in 1..Len(models)
      /\ res.model = models[n]
      /\ res.media # <<>>
      /\ answers[n].step = "return"
      /\ \A k \in 1..(n - 1) : answers[k].step = "continue" /\ answers[k].media = 0
      /\ Len(calls) = n
      /\ \A k \in 1..n : calls[k].kind = "router" /\ calls[k].to = models[k]

\* the third model of the list answered with a video
C25_Witness == DirectVideo /\ Len(answers) = 3 /\ cfg.variant = "complete"

-----------------------------------------------------------------------------
Walked == wpc = "end"
Context == IF walkFn = "find" THEN "video" ELSE "image"
MediaPrefix(ctx) == IF ctx = "video" THEN "data:video" ELSE "data:image"
Threshold(ctx) == IF ctx = "video" THEN 200 ELSE 100
AssumedMime(ctx) ==
  IF ctx = "video" THEN "data:video/mp4;base64," ELSE "data:image/png;base64,"
\* the first of the three rules that applies to a string, 0 when none does
RuleOf(st, ctx) ==
  IF st.len = 0 THEN 0
  ELSE IF st.pre = MediaPrefix(ctx) THEN 1
  ELSE IF ctx = "video" /\ st.mp4 THEN 2
  ELSE IF st.b64 /\ st.len >= Threshold(ctx) THEN 3
  ELSE 0

\* C26: a scalar string handed to a walk yields at most one reference, by
\* the first rule that applies: (1) it starts with the inline-media prefix
\* of the context and is passed through unchanged; (2) in video context it
\* matches the .mp4 pattern and is passed through unchanged; (3) it is one
\* run of base64 characters of at least 200 (video) or 100 (image)
\* characters and is emitted behind the assumed mime prefix; otherwise, and
\* for an empty string, null or 0, nothing is yielded.
C26_ScalarRules ==
  /\ (Walked /\ walkIn.t = "str") =>
       /\ Len(walkOut) <= 1
       /\ RuleOf(walkIn, Context) = 0 => walkOut = <<>>
       /\ RuleOf(walkIn, Context) \in {1, 2} => walkOut = <<Ref("", walkIn)>>
       /\ RuleOf(walkIn, Context) = 3 => walkOut = <<Ref(AssumedMime(Context), walkIn)>>
  /\ (Walked /\ walkIn \in {JNull, JNum(0)}) => walkOut = <<>>

\* a base64 string of exactly 100 characters: an image, and no video
C26_Witness ==
  /\ Walked
  /\ walkFn = "findImgs"
  /\ walkIn = JStr("", FALSE, TRUE, 100)
  /\ walkOut = <<Ref("data:image/png;base64,", walkIn)>>
  /\ find(walkIn) = <<>>

-----------------------------------------------------------------------------
ImageWalk == Walked /\ walkFn \in {"find/image", "findImgs"}
ImageLike(st) == st.len > 0 /\ (st.pre = "data:image" \/ (st.b64 /\ st.len >= 100))
AsImageRef(st) ==
  [prefix |-> IF st.pre = "data:image" THEN "" ELSE "data:image/png;base64,", s |-> st]
\* the first image-like string among the leaves, as a reference
FirstImage(o, declared) ==
  LET m == SelectSeq(Leaves(o, declared), ImageLike)
  IN IF m = <<>> THEN <<>> ELSE <<AsImageRef(m[1])>>

\* C27, as claimed: an image walk returns one reference at most, the first
\* matching string met depth first with object fields in declaration order
\* and sequence elements in index order, and the walk with the found flag
\* and the walk that returns early give the same result for the same value.
C27_FirstInDeclarationOrder ==
  ImageWalk =>
    /\ walkOut = FirstImage(walkIn, TRUE)
    /\ findImage(walkIn, <<>>) = findImgs(walkIn)

\* C27, amended: the same, with the fields of an object visited in the
\* order of Object.values: those whose keys are array indices ("2", "10")
\* first, in ascending order of the index, then the others in declaration
\* order.
C27_FirstInObjectValuesOrder ==
  ImageWalk =>
    /\ walkOut = FirstImage(walkIn, FALSE)
    /\ findImage(walkIn, <<>>) = findImgs(walkIn)

\* an object whose first image in the order of Object.values is not the
\* first declared
C27_Witness ==
  /\ ImageWalk
  /\ walkFn = "findImgs"
  /\ walkIn = JObj(<<"out", "10", "2">>, <<DataImage, MidB64, JArr(<<LongB64, Words>>)>>)
  /\ walkOut = <<Ref("data:image/png;base64,", LongB64)>>

-----------------------------------------------------------------------------
SpaceCalls == SelectSeq(calls, LAMBDA c : c.kind = "space")
RouterCalls == SelectSeq(calls, LAMBDA c : c.kind = "router")

\* C28: in the continuous server a Space is called only when the loop over
\* the router models has passed every model of the list without a video
\* (with a token, each model called once, in order), the Spaces are called
\* in the order of the configured list, and with no Space configured no
\* Space is called and a request whose router models gave no video ends
\* with the 404 answer that names the router models and the Spaces tried.
C28_SpacesAfterRouter ==
  cfg.variant = "continuous" =>
    /\ SpaceCalls # <<>> =>
         /\ i > Len(models)
         /\ models = getRouterModelList(cfg)
         /\ \A k \in 1..Len(answers) : answers[k].step = "continue"
         /\ Len(RouterCalls) = IF cfg.token THEN Len(models) ELSE 0
         /\ \A k \in 1..Len(RouterCalls) :
              calls[k] = RouterCalls[k] /\ calls[k].to = models[k]
    /\ \A k \in 1..Len(SpaceCalls) :
         /\ (k - 1) \div NumPayloads + 1 <= Len(cfg.spaces)
         /\ SpaceCalls[k].to = cfg.spaces[(k - 1) \div NumPayloads + 1]
    /\ cfg.spaces = <<>> =>
         /\ SpaceCalls = <<>>
         /\ (pc = "done" /\ res.code \notin {200, 400}) =>
              /\ res.code = 404
              /\ Len(res.diag) = Len(models)
              /\ \A k \in 1..Len(models) : res.diag[k].backend = models[k]

\* the second Space being called after the first gave nothing on any of
\* its payloads
C28_Witness ==
  /\ cfg.variant = "continuous"
  /\ cfg.token
  /\ Len(SpaceCalls) = NumPayloads + 1
  /\ SpaceCalls[NumPayloads + 1].to = SpaceNames[2]
  /\ Len(RouterCalls) = Len(DEFAULT_ROUTER_MODELS)

-----------------------------------------------------------------------------
SentRates == ppc = "sent" /\ "fps" \in parameters.keys

\* C29: whatever duration and fps the client supplies, the fps placed in the
\* payload is an integer from 6 to 30 and the duration is from 0.5 to 12
\* seconds, and they are 12 and 3 seconds when the field is absent.
C29_RatesWithinBounds ==
  SentRates =>
    /\ ~parameters.fps.nan
    /\ parameters.fps.n \in MinFps..MaxFps
    /\ ~parameters.duration.nan
    /\ parameters.duration.n \in MinDuration..MaxDuration
    /\ fields.fps.k = "absent" => parameters.fps.n = DefaultFps
    /\ fields.duration.k = "absent" => parameters.duration.n = DefaultDuration

-----------------------------------------------------------------------------
\* C30: whatever the frames field holds (nothing, zero, a negative number,
\* text that is no number), the frame count of the loop is an integer of
\* the clamp range, 8 for an absent or zero field; so the assembler is never
\* handed fewer than 4 frames, and /api/generate-frames never answers with
\* fewer than 4.
C30_FrameCountInRange ==
  (Accepted /\ cfg.variant # "continuous") =>
    /\ ~framesRequested.nan
    /\ framesRequested.n \in MinFrames..MaxFramesFrames
    /\ (req.frames.k = "absent" \/ (req.frames.k = "int" /\ req.frames.n = 0)) =>
         framesRequested.n = DefaultFrames
    /\ assembled > 0 => (Len(frames) >= MinFrames /\ Len(ImageCalls) >= MinFrames)
    /\ (pc = "done" /\ cfg.route = "frames" /\ res.code = 200) =>
         (Len(res.media) >= MinFrames /\ Len(ImageCalls) >= MinFrames)

-----------------------------------------------------------------------------
NoToken == ~cfg.token /\ cfg.route = "video"

\* C31, as claimed: with no API token configured, a generate-video request
\* makes no outbound call to any backend and ends in an error response.
C31_NoTokenNoCalls ==
  NoToken =>
    /\ calls = <<>>
    /\ pc = "done" => res.code >= 400

\* C31, amended: with no API token configured, no call goes to a router
\* model or to the image model.  The servers with the frame fallback make no
\* call at all and answer with an error; the continuous server still calls
\* its configured Spaces, which take no token, and answers with an error
\* unless a Space gave a video.
C31_NoTokenSpacesOnly ==
  NoToken =>
    /\ \A k \in 1..Len(calls) :
         /\ calls[k].kind = "space"
         /\ \E n \in 1..Len(cfg.spaces) : calls[k].to = cfg.spaces[n]
    /\ (cfg.variant # "continuous" \/ cfg.spaces = <<>>) => calls = <<>>
    /\ pc = "done" =>
         \/ res.code >= 400
         \/ /\ res.code = 200
            /\ answer.kind = "space"
            /\ answer.media > 0
            /\ res.model = calls[Len(calls)].to

\* a Space called, and answering with a video, on a server without a token
C31_Witness ==
  /\ NoToken
  /\ cfg.variant = "continuous"
  /\ calls # <<>>
  /\ pc = "done"
  /\ res.code = 200

=============================================================================
